---- MODULE Spec2Model ----
(***************************************************************************)
(* Route planning and delivery lifecycle of yo-rote.                       *)
(*                                                                         *)
(* The database rows (orders, routes, points, couriers) are the shared     *)
(* state.  The web application (app.py) and the courier bot (bot.py) are   *)
(* separate processes working on that database; every commit is one step.  *)
(***************************************************************************)
EXTENDS Integers, Sequences, FiniteSets, TLC

\* ------------------------------------------------------------------ bounds
NumOrders == 2
NumCouriers == 2
NumPoints == 1
MaxRoutes == 2
MaxPathLen == 2
MaxCoord == 17
MaxTextLen == 3
MaxDepots == 3

\* A NULL column / Python None for an id (ids start at 1, and the code tests
\* ids by truthiness: "if route_id", "if order.point_id").
None == 0
\* A NULL route_position (positions start at 0, so NULL needs its own value).
NoPos == -1

OrderIds == 1..NumOrders
CourierIds == 1..NumCouriers
PointIds == 1..NumPoints
RouteIds == 1..MaxRoutes
\* The ids of table points where the handlers of /api/points are at work.
DepotIds == 1..MaxDepots
\* The users a point can belong to (the owning scopes).
Users == {1, 2}

Planners == {"p1", "p2"}
Handlers == {"h1", "h2"}

VARIABLES
    orders,     \* orders[o]: the row of table orders
    routes,     \* routes[r]: the row of table routes (exists = FALSE: no row)
    nextRid,    \* the next primary key of table routes
    points,     \* points[p]: the row of table points
    couriers,   \* the ids of the rows of table couriers
    plan,       \* plan[p]: the locals of one running api_routes_optimize request
    bot,        \* bot[h]: the locals of one running bot handler (an asyncio task)
    edit,       \* the body of the api_route_edit request answered last, if the
                \* last request of the dispatcher was one
    resp,       \* the request to /api/couriers/<id> answered last and its answer
    vrp,        \* the locals of one call of a solver adapter (solve_vrp, solve_vrp_2gis)
    geo,        \* the locals of one polyline conversion or optimize-view request
    build,      \* one stop and the entries the two problem builders make of it
    fsm         \* the driver's dialogue with the bot: FSM state and data of the chat

vars ==
    <<orders, routes, nextRid, points, couriers, plan, bot, edit, resp, vrp, geo, build, fsm>>

\* ----------------------------------------------------------------- helpers
Range(s) == {s[i] : i \in 1..Len(s)}

Min(S) == CHOOSE x \in S : \A y \in S : x <= y

RECURSIVE SortedSeq(_)
\* The elements of a set of ids in ascending order (the order of a query
\* without ORDER BY on a table whose rows are never moved: primary-key order).
SortedSeq(S) == IF S = {} THEN <<>> ELSE <<Min(S)>> \o SortedSeq(S \ {Min(S)})

\* All orderings of a set.
Perms(S) ==
    {s \in [1..Cardinality(S) -> S] : \A i, j \in 1..Cardinality(S) : s[i] = s[j] => i = j}

\* The sequences of distinct elements of S with at least one element.
DistinctLists(S) == UNION {Perms(T) : T \in (SUBSET S) \ {{}}}

Terminal(st) == st \in {"completed", "failed"}

\* The orders linked to route r (Route.orders, Order.query.filter_by(route_id=r)).
LinkedOrders(os, r) == {o \in OrderIds : os[o].route_id = r}

NoRoute ==
    [exists |-> FALSE, courier_id |-> None, status |-> "none", plan |-> "none",
     date |-> None, geometry |-> <<>>]

\* ------------------------------------------------------------ solver (ORS)
\* What client.optimization can answer to one request with the jobs J and the
\* vehicles A.  A well-behaved solver serves every job at most once, uses only
\* vehicles it was offered and returns at most one route per vehicle; a vehicle
\* without jobs is either left out or listed with no job step.
SolverRoutes(J, A) ==
    { [v \in A |-> SelectSeq(ord, LAMBDA j : asg[j] = v)] :
        ord \in Perms(J), asg \in [J -> A \cup {None}] }

\* The geometry of a route is named by the path it draws.
SolverResponses(J, A) ==
    {[kind |-> k, steps |-> [v \in A |-> <<>>], geometry |-> [v \in A |-> <<>>],
      listEmpty |-> FALSE] :
        k \in {"api_error", "no_routes_key", "malformed"}}
    \cup
    {[kind |-> "ok", steps |-> st, geometry |-> [v \in A |-> st[v]], listEmpty |-> le] :
        st \in SolverRoutes(J, A), le \in BOOLEAN}

\* The jobs solve_vrp builds: the orders that have coordinates.
JobsOf(os, group_orders) == {o \in Range(group_orders) : os[o].lat}

RECURSIVE ParseRoutes_all(_, _)
\* A loop that keeps the routes without a job step.
ParseRoutes_all(raw, vs) ==
    IF vs = <<>> THEN <<>>
    ELSE <<[courier_id |-> Head(vs), geometry |-> raw.geometry[Head(vs)],
            order_ids |-> raw.steps[Head(vs)]]>> \o ParseRoutes_all(raw, Tail(vs))

RECURSIVE ParseRoutes(_, _)
\* The loop over response['routes']: one result per route with at least one
\* job step; vs is the list of the vehicles the response lists.
ParseRoutes(raw, vs) ==
    IF vs = <<>> THEN <<>>
    ELSE LET v == Head(vs)
             rest == ParseRoutes(raw, Tail(vs))
         IN IF raw.steps[v] = <<>> THEN rest
            ELSE <<[courier_id |-> v, geometry |-> raw.geometry[v], order_ids |-> raw.steps[v]]>> \o rest

\* solve_vrp(orders, couriers, depot): exc = TRUE when it raises, data is the
\* list it returns.  called = TRUE when the request reached the solver.
solve_vrp(os, group_orders, avail, raw) ==
    LET J == JobsOf(os, group_orders)
        listed == {v \in avail : raw.listEmpty \/ raw.steps[v] # <<>>}
    IN IF Len(group_orders) = 0 \/ avail = {}
           THEN [exc |-> FALSE, data |-> <<>>, called |-> FALSE]
       ELSE IF J = {}
           THEN [exc |-> FALSE, data |-> <<>>, called |-> FALSE]
       ELSE IF raw.kind = "api_error"
           THEN [exc |-> FALSE, data |-> <<>>, called |-> TRUE]
       ELSE IF raw.kind = "no_routes_key"
           THEN [exc |-> FALSE, data |-> <<>>, called |-> TRUE]
       ELSE IF raw.kind = "malformed"
           THEN [exc |-> TRUE, data |-> <<>>, called |-> TRUE]
       ELSE [exc |-> FALSE, data |-> ParseRoutes(raw, SortedSeq(listed)), called |-> TRUE]

\* ------------------------------------------------- planning (app.py, optimize)
IdlePlan ==
    [pc |-> "idle", date |-> 1, couriers |-> {}, groups |-> <<>>, default_point |-> None,
     gi |-> 1, used |-> {}, errors |-> <<>>, created |-> <<>>, pending |-> <<>>,
     calls |-> <<>>,
     result |-> [success |-> FALSE, message |-> <<>>, routes_ids |-> <<>>]]

\* A query that forgets the date (every planned order without a route).
CandidateOrders_anydate(os, date) ==
    {o \in OrderIds : os[o].status = "planned" /\ os[o].route_id = None}

\* The orders the request plans: of the requested date, planned and linked to
\* no route.
CandidateOrders(os, date) ==
    {o \in OrderIds :
        os[o].visit_date = date /\ os[o].status = "planned" /\ os[o].route_id = None}

\* The primary point, else the first point, else None.
DefaultPoint(ps) ==
    LET prim == {p \in PointIds : ps[p].exists /\ ps[p].is_primary}
        all == {p \in PointIds : ps[p].exists}
    IN IF prim # {} THEN Min(prim) ELSE IF all # {} THEN Min(all) ELSE None

\* A grouping that takes an order's point as it is, with or without coordinates.
PointKey_nocoords(ps, os, o) ==
    IF os[o].point_id # None
        THEN IF ps[os[o].point_id].exists
                THEN os[o].point_id
                ELSE None
        ELSE None

\* The key of the group an order falls into.
PointKey(ps, os, o) ==
    IF os[o].point_id # None
        THEN IF ps[os[o].point_id].exists /\ ps[os[o].point_id].coords
                THEN os[o].point_id
                ELSE None
        ELSE None

RECURSIVE GroupOrders(_, _, _)
\* orders_by_point, as the list of its (key, orders) items in insertion order.
GroupOrders(ps, os, cand) ==
    IF cand = <<>> THEN <<>>
    ELSE LET o == Head(cand)
             k == PointKey(ps, os, o)
             same == SelectSeq(cand, LAMBDA x : PointKey(ps, os, x) = k)
             others == SelectSeq(cand, LAMBDA x : PointKey(ps, os, x) # k)
         IN <<[key |-> k, orders |-> same]>> \o GroupOrders(ps, os, others)

\* A planner that forgets the couriers already used (every group is offered all).
AvailableCouriers_all(cs, used) == cs

\* available_couriers = [c for c in couriers if c.id not in used_courier_ids]
AvailableCouriers(cs, used) == cs \ used

RECURSIVE Materialize(_, _, _, _)
\* The loop over routes_data: mark the courier used, add the route, link its orders.
Materialize(pl, data, rid, key) ==
    IF data = <<>> THEN pl
    ELSE LET ri == Head(data)
             pl2 == [pl EXCEPT
                        !.used = @ \cup {ri.courier_id},
                        !.created = Append(@, rid),
                        !.pending = Append(@, [id |-> rid, courier_id |-> ri.courier_id,
                                                date |-> pl.date, geometry |-> ri.geometry,
                                                order_ids |-> ri.order_ids, key |-> key])]
         IN Materialize(pl2, Tail(data), rid + 1, key)

\* A loop that stops at the first group that fails ("break" for "continue").
PlanError_break(pl, kind, g) ==
    [pl EXCEPT !.errors = Append(@, [kind |-> kind, key |-> g.key, n |-> Len(g.orders)]),
               !.gi = Len(pl.groups) + 1]

\* A loop that tries a group again when the solver gave no route.
PlanError_retry(pl, kind, g) ==
    [pl EXCEPT !.errors = Append(@, [kind |-> kind, key |-> g.key, n |-> Len(g.orders)]),
               !.gi = IF kind = "no_route" THEN @ ELSE @ + 1]

\* errors.append(...); continue
PlanError(pl, kind, g) ==
    [pl EXCEPT !.errors = Append(@, [kind |-> kind, key |-> g.key, n |-> Len(g.orders)]),
               !.gi = @ + 1]

\* The requests client.optimization received: solve_vrp sends one when it was
\* given orders and couriers and at least one order has coordinates.  depot is
\* the point whose coordinates are depot_coords.
LogCall(pl, g, os, avail, called) ==
    IF called
        THEN [pl EXCEPT !.calls = Append(@, [key |-> g.key, jobs |-> JobsOf(os, g.orders),
                                             vehicles |-> avail,
                                             depot |-> IF g.key = None THEN pl.default_point
                                                       ELSE g.key])]
        ELSE pl

\* One iteration of "for point_key, group_orders in orders_by_point.items()".
GroupStep(pl, ps, os, rid, raw) ==
    LET g == pl.groups[pl.gi]
        dp == pl.default_point
        avail == AvailableCouriers(pl.couriers, pl.used)
        res == solve_vrp(os, g.orders, avail, raw)
        sent == LogCall(pl, g, os, avail, res.called)
    IN IF g.key = None /\ (dp = None \/ ~ps[dp].coords)
           THEN PlanError(pl, "no_depot", g)
       ELSE IF avail = {}
           THEN PlanError(pl, "no_couriers", g)
       ELSE IF res.exc
           THEN PlanError(sent, "vrp_error", g)
       ELSE IF res.data = <<>>
           THEN PlanError(sent, "no_route", g)
       ELSE [Materialize(sent, res.data, rid, g.key) EXCEPT !.gi = @ + 1]

\* A response that reports failure as soon as any group failed.
PlanResult_strict(pl) ==
    IF pl.errors # <<>>
        THEN [success |-> FALSE, message |-> pl.errors, routes_ids |-> <<>>]
        ELSE [success |-> TRUE, message |-> pl.errors, routes_ids |-> pl.created]

\* The response after db.session.commit().
PlanResult(pl) ==
    IF pl.created = <<>> /\ pl.errors # <<>>
        THEN [success |-> FALSE, message |-> pl.errors, routes_ids |-> <<>>]
        ELSE [success |-> TRUE, message |-> pl.errors, routes_ids |-> pl.created]

\* The rows after the commit: the new routes, and each linked order.
PendingOf(pend, o) == {i \in 1..Len(pend) : o \in Range(pend[i].order_ids)}

Max(S) == CHOOSE x \in S : \A y \in S : x >= y

\* A commit that starts the orders it links (in_progress for planned).
CommitOrders_start(os, pend) ==
    [o \in OrderIds |->
        IF PendingOf(pend, o) = {} THEN os[o]
        ELSE [os[o] EXCEPT !.route_id = pend[Max(PendingOf(pend, o))].id,
                           !.status = "in_progress"]]

CommitOrders(os, pend) ==
    [o \in OrderIds |->
        IF PendingOf(pend, o) = {} THEN os[o]
        ELSE [os[o] EXCEPT !.route_id = pend[Max(PendingOf(pend, o))].id,
                           !.status = "planned"]]

CommitRoutes(rs, pend, p) ==
    [r \in RouteIds |->
        IF \E i \in 1..Len(pend) : pend[i].id = r
            THEN LET i == CHOOSE i \in 1..Len(pend) : pend[i].id = r
                 IN [exists |-> TRUE, courier_id |-> pend[i].courier_id,
                     status |-> "active", plan |-> p,
                     date |-> pend[i].date, geometry |-> pend[i].geometry]
            ELSE rs[r]]

\* A request that does not look at the couriers before it groups the orders.
PlanStart_unguarded(p) ==
    /\ plan[p].pc = "idle"
    /\ LET cand == CandidateOrders(orders, plan[p].date)
       IN plan' = [plan EXCEPT ![p] =
            IF cand = {}
                THEN [IdlePlan EXCEPT !.pc = "done", !.date = plan[p].date,
                        !.result = [success |-> FALSE,
                                    message |-> <<[kind |-> "no_orders", key |-> None, n |-> 0]>>,
                                    routes_ids |-> <<>>]]
            ELSE [IdlePlan EXCEPT !.pc = "groups", !.date = plan[p].date,
                        !.couriers = couriers,
                        !.default_point = DefaultPoint(points),
                        !.groups = GroupOrders(points, orders, SortedSeq(cand))]]
    /\ UNCHANGED <<orders, routes, nextRid, points, couriers, bot, edit, resp, vrp, geo, build, fsm>>

\* The request up to the loop over the groups.
PlanStart(p) ==
    /\ plan[p].pc = "idle"
    /\ LET cand == CandidateOrders(orders, plan[p].date)
       IN plan' = [plan EXCEPT ![p] =
            IF couriers = {}
                THEN [IdlePlan EXCEPT !.pc = "done", !.date = plan[p].date,
                        !.result = [success |-> FALSE,
                                    message |-> <<[kind |-> "no_couriers_at_all", key |-> None, n |-> 0]>>,
                                    routes_ids |-> <<>>]]
            ELSE IF cand = {}
                THEN [IdlePlan EXCEPT !.pc = "done", !.date = plan[p].date,
                        !.result = [success |-> FALSE,
                                    message |-> <<[kind |-> "no_orders", key |-> None, n |-> 0]>>,
                                    routes_ids |-> <<>>]]
            ELSE [IdlePlan EXCEPT !.pc = "groups", !.date = plan[p].date,
                        !.couriers = couriers,
                        !.default_point = DefaultPoint(points),
                        !.groups = GroupOrders(points, orders, SortedSeq(cand))]]
    /\ UNCHANGED <<orders, routes, nextRid, points, couriers, bot, edit, resp, vrp, geo, build, fsm>>

\* One group: its depot, its couriers, the solver call, the routes it adds.
PlanGroup(p) ==
    /\ plan[p].pc = "groups"
    /\ plan[p].gi <= Len(plan[p].groups)
    /\ LET g == plan[p].groups[plan[p].gi]
           avail == AvailableCouriers(plan[p].couriers, plan[p].used)
       IN \E raw \in SolverResponses(JobsOf(orders, g.orders), avail) :
            LET pl2 == GroupStep(plan[p], points, orders, nextRid, raw)
            IN /\ nextRid + (Len(pl2.created) - Len(plan[p].created)) <= MaxRoutes + 1
               /\ plan' = [plan EXCEPT ![p] = pl2]
               /\ nextRid' = nextRid + (Len(pl2.created) - Len(plan[p].created))
    /\ UNCHANGED <<orders, routes, points, couriers, bot, edit, resp, vrp, geo, build, fsm>>

\* db.session.commit() and the response.
PlanCommit(p) ==
    /\ plan[p].pc = "groups"
    /\ plan[p].gi > Len(plan[p].groups)
    /\ orders' = CommitOrders(orders, plan[p].pending)
    /\ routes' = CommitRoutes(routes, plan[p].pending, p)
    /\ plan' = [plan EXCEPT ![p] = [@ EXCEPT !.pc = "done", !.result = PlanResult(plan[p])]]
    /\ UNCHANGED <<nextRid, points, couriers, bot, edit, resp, vrp, geo, build, fsm>>

\* ------------------------------------------- terminal marking (bot.py handlers)
IdleBot == [pc |-> "idle", order_id |-> None, route_id |-> None, ret |-> FALSE, branch |-> "none"]

\* A check that counts only delivered stops as done (failed ones are forgotten).
check_and_complete_route_delivered(rs, os, r) ==
    IF ~rs[r].exists \/ rs[r].status # "active"
        THEN [ret |-> FALSE, routes |-> rs, branch |-> "not_active"]
    ELSE IF LinkedOrders(os, r) = {}
        THEN [ret |-> FALSE, routes |-> rs, branch |-> "no_orders"]
    ELSE IF \A o \in LinkedOrders(os, r) : os[o].status = "completed"
        THEN [ret |-> TRUE, routes |-> [rs EXCEPT ![r].status = "completed"], branch |-> "all_done"]
    ELSE [ret |-> FALSE, routes |-> rs, branch |-> "open"]

\* A check without the test for an empty route.
check_and_complete_route_noempty(rs, os, r) ==
    IF ~rs[r].exists \/ rs[r].status # "active"
        THEN [ret |-> FALSE, routes |-> rs, branch |-> "not_active"]
    ELSE IF \A o \in LinkedOrders(os, r) : Terminal(os[o].status)
        THEN [ret |-> TRUE, routes |-> [rs EXCEPT ![r].status = "completed"], branch |-> "all_done"]
    ELSE [ret |-> FALSE, routes |-> rs, branch |-> "open"]

\* A check that completes the route as soon as one stop is done ("any" for "all").
check_and_complete_route_any(rs, os, r) ==
    IF ~rs[r].exists \/ rs[r].status # "active"
        THEN [ret |-> FALSE, routes |-> rs, branch |-> "not_active"]
    ELSE IF LinkedOrders(os, r) = {}
        THEN [ret |-> FALSE, routes |-> rs, branch |-> "no_orders"]
    ELSE IF \E o \in LinkedOrders(os, r) : Terminal(os[o].status)
        THEN [ret |-> TRUE, routes |-> [rs EXCEPT ![r].status = "completed"], branch |-> "all_done"]
    ELSE [ret |-> FALSE, routes |-> rs, branch |-> "open"]

\* A check that does not look at the route's status: it "completes" a route
\* again that is completed already.
check_and_complete_route_again(rs, os, r) ==
    IF ~rs[r].exists
        THEN [ret |-> FALSE, routes |-> rs, branch |-> "not_active"]
    ELSE IF LinkedOrders(os, r) = {}
        THEN [ret |-> FALSE, routes |-> rs, branch |-> "no_orders"]
    ELSE IF \A o \in LinkedOrders(os, r) : Terminal(os[o].status)
        THEN [ret |-> TRUE, routes |-> [rs EXCEPT ![r].status = "completed"], branch |-> "all_done"]
    ELSE [ret |-> FALSE, routes |-> rs, branch |-> "open"]

\* check_and_complete_route(route_id): the rows of table routes afterwards, the
\* value returned, and the return statement reached.
check_and_complete_route(rs, os, r) ==
    IF ~rs[r].exists \/ rs[r].status # "active"
        THEN [ret |-> FALSE, routes |-> rs, branch |-> "not_active"]
    ELSE IF LinkedOrders(os, r) = {}
        THEN [ret |-> FALSE, routes |-> rs, branch |-> "no_orders"]
    ELSE IF \A o \in LinkedOrders(os, r) : Terminal(os[o].status)
        THEN [ret |-> TRUE, routes |-> [rs EXCEPT ![r].status = "completed"], branch |-> "all_done"]
    ELSE [ret |-> FALSE, routes |-> rs, branch |-> "open"]

\* process_photo_proof up to the download of the photo: the first transaction
\* reads the order's route_id; the handler then awaits bot.download_file.
PhotoRead(h, o) ==
    /\ bot[h].pc = "idle"
    /\ bot' = [bot EXCEPT ![h] = [pc |-> "photo", order_id |-> o,
                                  route_id |-> orders[o].route_id, ret |-> FALSE,
                                  branch |-> "none"]]
    /\ UNCHANGED <<orders, routes, nextRid, points, couriers, plan, edit, resp, vrp, geo, build, fsm>>

\* process_photo_proof, second transaction: the order is completed with its
\* proof and committed; the handler then awaits message.answer.
PhotoCommit(h) ==
    /\ bot[h].pc = "photo"
    /\ orders' = [orders EXCEPT ![bot[h].order_id] =
                    [@ EXCEPT !.status = "completed", !.proof_image = TRUE]]
    /\ bot' = [bot EXCEPT ![h].pc = "check"]
    /\ UNCHANGED <<routes, nextRid, points, couriers, plan, edit, resp, vrp, geo, build, fsm>>

\* process_failure_reason: the order is failed with its reason, its route_id is
\* read, and the transaction committed; the handler then awaits message.answer.
FailCommit(h, o) ==
    /\ bot[h].pc = "idle"
    /\ orders' = [orders EXCEPT ![o] =
                    [@ EXCEPT !.status = "failed", !.failure_reason = TRUE]]
    /\ bot' = [bot EXCEPT ![h] = [pc |-> "check", order_id |-> o,
                                  route_id |-> orders[o].route_id, ret |-> FALSE,
                                  branch |-> "none"]]
    /\ UNCHANGED <<routes, nextRid, points, couriers, plan, edit, resp, vrp, geo, build, fsm>>

\* "if route_id and check_and_complete_route(route_id)", and the end of the handler.
CheckRoute(h) ==
    /\ bot[h].pc = "check"
    /\ LET res == IF bot[h].route_id # None
                    THEN check_and_complete_route(routes, orders, bot[h].route_id)
                    ELSE [ret |-> FALSE, routes |-> routes, branch |-> "no_route_id"]
       IN /\ routes' = res.routes
          /\ bot' = [bot EXCEPT ![h] = [@ EXCEPT !.pc = "idle", !.ret = res.ret,
                                                 !.branch = res.branch]]
    /\ UNCHANGED <<orders, nextRid, points, couriers, plan, edit, resp, vrp, geo, build, fsm>>

\* ------------------------------------------------ driver dialogue (bot.py, FSM)
\* No dialogue: state.clear() leaves neither a state nor data.  last is the
\* update the bot handled last.
NoFsm == [state |-> "none", order_id |-> None, last |-> "none"]

\* callback_delivered: the order of the button is stored, a photo is awaited.
CallbackDelivered(o) ==
    /\ fsm' = [state |-> "waiting_photo_proof", order_id |-> o, last |-> "delivered"]
    /\ UNCHANGED <<orders, routes, nextRid, points, couriers, plan, bot, edit, resp, vrp, geo, build>>

\* callback_failed: the order of the button is stored, a reason is awaited.
CallbackFailed(o) ==
    /\ fsm' = [state |-> "waiting_failure_reason", order_id |-> o, last |-> "failed"]
    /\ UNCHANGED <<orders, routes, nextRid, points, couriers, plan, bot, edit, resp, vrp, geo, build>>

\* callback_cancel: state.clear()
CallbackCancel ==
    /\ fsm' = [NoFsm EXCEPT !.last = "cancel"]
    /\ UNCHANGED <<orders, routes, nextRid, points, couriers, plan, bot, edit, resp, vrp, geo, build>>

\* The routes after "if route_id and check_and_complete_route(route_id)".
RoutesAfterCheck(rs, os, route_id) ==
    IF route_id # None THEN check_and_complete_route(rs, os, route_id).routes ELSE rs

\* A photo handler that does not look at the dialogue state: it marks the order
\* of the chat's data whenever there is one.
photo_marks_anystate(f) == f.order_id # None

\* @dp.message(DeliveryStates.waiting_photo_proof, F.photo): process_photo_proof
\* takes a photo only while a photo is awaited.
photo_marks(f) == f.state = "waiting_photo_proof" /\ f.order_id # None

\* A message with a photo: process_photo_proof from its filter to state.clear()
\* when a photo is awaited, no handler of the dialogue otherwise.
MessagePhoto ==
    /\ IF photo_marks(fsm)
        THEN LET o == fsm.order_id
                 os == [orders EXCEPT ![o] = [@ EXCEPT !.status = "completed", !.proof_image = TRUE]]
             IN /\ orders' = os
                /\ routes' = RoutesAfterCheck(routes, os, orders[o].route_id)
                /\ fsm' = [NoFsm EXCEPT !.last = "photo"]
        ELSE /\ fsm' = [fsm EXCEPT !.last = "photo"]
             /\ UNCHANGED <<orders, routes>>
    /\ UNCHANGED <<nextRid, points, couriers, plan, bot, edit, resp, vrp, geo, build>>

\* @dp.message(DeliveryStates.waiting_failure_reason, F.text): a text that is
\* not a menu command is the reason.
text_marks(f, menu) == f.state = "waiting_failure_reason" /\ ~menu /\ f.order_id # None

\* A message with a text: process_failure_reason from its filter to
\* state.clear() when a reason is awaited and the text is not a menu command;
\* process_photo_proof_invalid when a photo is awaited; neither changes the
\* dialogue otherwise.
MessageText(menu) ==
    /\ IF text_marks(fsm, menu)
        THEN LET o == fsm.order_id
                 os == [orders EXCEPT ![o] = [@ EXCEPT !.status = "failed", !.failure_reason = TRUE]]
             IN /\ orders' = os
                /\ routes' = RoutesAfterCheck(routes, os, orders[o].route_id)
                /\ fsm' = [NoFsm EXCEPT !.last = "text"]
        ELSE /\ fsm' = [fsm EXCEPT !.last = "text"]
             /\ UNCHANGED <<orders, routes>>
    /\ UNCHANGED <<nextRid, points, couriers, plan, bot, edit, resp, vrp, geo, build>>

\* -------------------------------------------------- routes (app.py handlers)
NoEdit == [route |-> None, orders |-> <<>>]

\* No request to /api/couriers/<id> was the last one.
NoResp == [courier |-> None, success |-> FALSE, code |-> 0]

LastIndex(L, o) == Max({i \in 1..Len(L) : L[i] = o})

\* A reorder that only adds the listed orders (a diff, the others stay linked).
EditOrders_diff(os, r, L) ==
    [o \in OrderIds |->
        IF o \in Range(L)
            THEN [os[o] EXCEPT !.route_id = r, !.route_position = LastIndex(L, o) - 1]
        ELSE os[o]]

\* api_route_edit: every order of the route is unlinked, then the orders of the
\* list are linked, each at its index.
EditOrders(os, r, L) ==
    [o \in OrderIds |->
        IF o \in Range(L)
            THEN [os[o] EXCEPT !.route_id = r, !.route_position = LastIndex(L, o) - 1]
        ELSE IF os[o].route_id = r
            THEN [os[o] EXCEPT !.route_id = None, !.route_position = NoPos]
        ELSE os[o]]

\* POST /api/routes/<id>/edit
RouteEdit(r, L) ==
    /\ routes[r].exists
    /\ L # <<>>
    /\ orders' = EditOrders(orders, r, L)
    /\ edit' = [route |-> r, orders |-> L]
    /\ resp' = NoResp
    /\ UNCHANGED <<routes, nextRid, points, couriers, plan, bot, vrp, geo, build, fsm>>

\* PUT /api/routes/<id>: status and courier_id are taken from the request as given.
PutRoute(row, hasStatus, st, c) ==
    [row EXCEPT !.status = IF hasStatus THEN st ELSE @,
                !.courier_id = IF c # None THEN c ELSE @]

RoutePut(r, hasStatus, st, c) ==
    /\ routes[r].exists
    /\ routes' = [routes EXCEPT ![r] = PutRoute(@, hasStatus, st, c)]
    /\ edit' = NoEdit
    /\ resp' = NoResp
    /\ UNCHANGED <<orders, nextRid, points, couriers, plan, bot, vrp, geo, build, fsm>>

\* DELETE /api/routes/<id>: the orders are unlinked, the route row is deleted.
DeleteOrders(os, r) ==
    [o \in OrderIds |-> IF os[o].route_id = r THEN [os[o] EXCEPT !.route_id = None] ELSE os[o]]

RouteDelete(r) ==
    /\ routes[r].exists
    /\ orders' = DeleteOrders(orders, r)
    /\ routes' = [routes EXCEPT ![r] = NoRoute]
    /\ edit' = NoEdit
    /\ resp' = NoResp
    /\ UNCHANGED <<nextRid, points, couriers, plan, bot, vrp, geo, build, fsm>>

\* PUT /api/orders/<id>: a status in the request is written as given, whatever
\* the status of the order was.
PutOrder(row, st) == [row EXCEPT !.status = st]

OrderPut(o, st) ==
    /\ orders' = [orders EXCEPT ![o] = PutOrder(@, st)]
    /\ edit' = NoEdit
    /\ resp' = NoResp
    /\ UNCHANGED <<routes, nextRid, points, couriers, plan, bot, vrp, geo, build, fsm>>

\* POST /api/routes: a new route of a courier, and the orders given linked to it.
CreateOrders(os, r, L) ==
    [o \in OrderIds |-> IF o \in Range(L) THEN [os[o] EXCEPT !.route_id = r] ELSE os[o]]

RouteCreate(c, st, L) ==
    /\ c \in couriers
    /\ nextRid <= MaxRoutes
    /\ routes' = [routes EXCEPT ![nextRid] =
                    [exists |-> TRUE, courier_id |-> c, status |-> st, plan |-> "none",
                     date |-> 1, geometry |-> <<>>]]
    /\ orders' = CreateOrders(orders, nextRid, L)
    /\ nextRid' = nextRid + 1
    /\ edit' = NoEdit
    /\ resp' = NoResp
    /\ UNCHANGED <<points, couriers, plan, bot, vrp, geo, build, fsm>>

\* ----------------------------- polyline (optimizer_2gis.py, optimizer.py)
\* A string is the sequence of the code points of its characters (ord).
\* Coordinates are integers: degrees times 1e5.
RECURSIVE Pow2(_)
Pow2(n) == IF n = 0 THEN 1 ELSE 2 * Pow2(n - 1)

RECURSIVE EncodeChunks(_)
\* The while loop of _encode_number: five bits per character, low bits first.
EncodeChunks(num) ==
    IF num >= 32
        THEN <<(32 + (num % 32)) + 63>> \o EncodeChunks(num \div 32)
        ELSE <<num + 63>>

\* _encode_number(num): "~num << 1" is (~num) << 1, that is (-num - 1) * 2.
encode_number(num) == EncodeChunks(IF num < 0 THEN (-num - 1) * 2 ELSE num * 2)

RECURSIVE EncodeFrom(_, _, _)
\* The loop of _encode_coords_to_polyline over the points left.
EncodeFrom(coords, prev_lat, prev_lng) ==
    IF coords = <<>> THEN <<>>
    ELSE LET lat_int == Head(coords)[1]
             lng_int == Head(coords)[2]
         IN encode_number(lat_int - prev_lat) \o encode_number(lng_int - prev_lng)
                \o EncodeFrom(Tail(coords), lat_int, lng_int)

\* _encode_coords_to_polyline(coords): None for no coordinates, else the string.
encode_coords_to_polyline(coords) ==
    IF coords = <<>>
        THEN [none |-> TRUE, text |-> <<>>]
        ELSE [none |-> FALSE, text |-> EncodeFrom(coords, 0, 0)]

RECURSIVE DecodeNumber(_, _, _, _)
\* The inner "while True" of the decoders: err = TRUE is the IndexError of
\* encoded[index] past the end of the string.
DecodeNumber(encoded, index, shift, result) ==
    IF index > Len(encoded)
        THEN [err |-> TRUE, result |-> 0, index |-> index]
    ELSE LET b == encoded[index] - 63
             r2 == result + (b % 32) * Pow2(shift)
         IN IF b < 32
                THEN [err |-> FALSE, result |-> r2, index |-> index + 1]
                ELSE DecodeNumber(encoded, index + 1, shift + 5, r2)

\* ~(result >> 1) if (result & 1) else (result >> 1)
Unzigzag(result) == IF result % 2 = 1 THEN -(result \div 2) - 1 ELSE result \div 2

RECURSIVE DecodeFrom(_, _, _, _)
\* The outer loop of the decoders from position index on.
DecodeFrom(encoded, index, lat, lng) ==
    IF index > Len(encoded) THEN [exc |-> FALSE, coords |-> <<>>]
    ELSE LET a == DecodeNumber(encoded, index, 0, 0)
         IN IF a.err THEN [exc |-> TRUE, coords |-> <<>>]
            ELSE LET b == DecodeNumber(encoded, a.index, 0, 0)
                 IN IF b.err THEN [exc |-> TRUE, coords |-> <<>>]
                    ELSE LET lat2 == lat + Unzigzag(a.result)
                             lng2 == lng + Unzigzag(b.result)
                             rest == DecodeFrom(encoded, b.index, lat2, lng2)
                         IN IF rest.exc THEN rest
                            ELSE [exc |-> FALSE, coords |-> <<<<lat2, lng2>>>> \o rest.coords]

\* decode_polyline(encoded): exc = TRUE when it raises (len(None) raises too).
decode_polyline(enc) ==
    IF enc.none THEN [exc |-> TRUE, coords |-> <<>>] ELSE DecodeFrom(enc.text, 1, 0, 0)

\* decode_polyline_2gis(encoded): the same loop, a second copy of the code.
decode_polyline_2gis(enc) ==
    IF enc.none THEN [exc |-> TRUE, coords |-> <<>>] ELSE DecodeFrom(enc.text, 1, 0, 0)

\* The path of api_route_optimize_view for a route with this geometry: the
\* exception of the decoder is caught and printed, and the path stays empty.
ViewPath(enc) ==
    IF enc.none \/ enc.text = <<>> THEN [code |-> 200, path |-> <<>>]
    ELSE LET d == decode_polyline(enc)
         IN IF d.exc THEN [code |-> 200, path |-> <<>>]
            ELSE [code |-> 200, path |-> d.coords]

NoText == [none |-> TRUE, text |-> <<>>]
NoCoords == [exc |-> FALSE, coords |-> <<>>]
IdleGeo ==
    [pc |-> "idle", coords |-> <<>>, encoded |-> NoText, decoded |-> NoCoords,
     decoded_2gis |-> NoCoords, view |-> [code |-> 0, path |-> <<>>]]

\* encoded = _encode_coords_to_polyline(coords)
GeoEncode ==
    /\ geo.pc = "coords"
    /\ geo' = [geo EXCEPT !.pc = "encoded", !.encoded = encode_coords_to_polyline(geo.coords)]
    /\ UNCHANGED <<orders, routes, nextRid, points, couriers, plan, bot, edit, resp, vrp, build, fsm>>

\* decode_polyline(encoded) and decode_polyline_2gis(encoded)
GeoDecode ==
    /\ geo.pc \in {"encoded", "text"}
    /\ geo' = [geo EXCEPT !.pc = "decoded",
                          !.decoded = decode_polyline(geo.encoded),
                          !.decoded_2gis = decode_polyline_2gis(geo.encoded)]
    /\ UNCHANGED <<orders, routes, nextRid, points, couriers, plan, bot, edit, resp, vrp, build, fsm>>

\* GET /api/routes/<id>/optimize-view of a route whose geometry is the string.
GeoView ==
    /\ geo.pc = "text"
    /\ geo' = [geo EXCEPT !.pc = "viewed", !.view = ViewPath(geo.encoded)]
    /\ UNCHANGED <<orders, routes, nextRid, points, couriers, plan, bot, edit, resp, vrp, build, fsm>>

\* ------------------------- solver adapters (optimizer.py, optimizer_2gis.py)
MAX_POLL_ATTEMPTS == 60

IdleVrp ==
    [pc |-> "idle", adapter |-> "none", given |-> <<>>, jobs |-> {}, vehicles |-> {},
     submits |-> 0, attempt |-> 0, polls |-> 0, status |-> "none", seen |-> {},
     why |-> "none", result |-> [exc |-> FALSE, data |-> <<>>]]

\* A 2GIS adapter that submits whatever orders it was given.
solve_vrp_2gis_guard_nofilter(key, os, given, cs) ==
    IF ~key THEN "no_key"
    ELSE IF given = <<>> \/ cs = {} THEN "empty"
    ELSE "submit"

\* solve_vrp_2gis before the payload is built: the API key, the arguments, the
\* orders with coordinates.
solve_vrp_2gis_guard(key, os, given, cs) ==
    IF ~key THEN "no_key"
    ELSE IF given = <<>> \/ cs = {} THEN "empty"
    ELSE IF JobsOf(os, given) = {} THEN "no_valid_orders"
    ELSE "submit"

\* A submit whose transport error is swallowed (the run goes on to poll).
create_vrp_task_swallow(ans) == ans \in {"task", "error"}

\* _create_vrp_task(payload): a task id, or None on a transport error or an
\* answer without task_id.  TRUE stands for a task id.
create_vrp_task(ans) == ans = "task"

\* What the status endpoint can answer: a status with or without the URL of
\* the solution, or a transport error.
PollAnswers ==
    [status : {"Done", "Partial", "Fail", "Run", "Unknown", "error"}, url : BOOLEAN]

\* A poll loop in which a transport error does not use up an attempt.
poll_vrp_status_retry(v, ans) ==
    LET polled == [v EXCEPT !.polls = IF @ <= MAX_POLL_ATTEMPTS THEN @ + 1 ELSE @,
                            !.status = ans.status]
    IN IF ans.status \in {"Done", "Partial"}
           THEN IF ans.url THEN [polled EXCEPT !.pc = "fetch"]
                ELSE [polled EXCEPT !.pc = "done", !.why = "no_url"]
       ELSE IF ans.status = "Fail"
           THEN [polled EXCEPT !.pc = "done", !.why = "fail"]
       ELSE IF ans.status = "error"
           THEN [polled EXCEPT !.seen = @ \cup {"poll_error"}]
       ELSE IF v.attempt + 1 >= MAX_POLL_ATTEMPTS
           THEN [polled EXCEPT !.attempt = @ + 1, !.pc = "done", !.why = "timeout"]
       ELSE [polled EXCEPT !.attempt = @ + 1]

\* One iteration of "for attempt in range(MAX_POLL_ATTEMPTS)" of
\* _poll_vrp_status, with the return after the loop when it was the last.
poll_vrp_status(v, ans) ==
    LET polled == [v EXCEPT !.polls = IF @ <= MAX_POLL_ATTEMPTS THEN @ + 1 ELSE @,
                            !.status = ans.status,
                            !.seen = IF ans.status = "error" THEN @ \cup {"poll_error"} ELSE @]
    IN IF ans.status \in {"Done", "Partial"}
           THEN IF ans.url THEN [polled EXCEPT !.pc = "fetch"]
                ELSE [polled EXCEPT !.pc = "done", !.why = "no_url"]
       ELSE IF ans.status = "Fail"
           THEN [polled EXCEPT !.pc = "done", !.why = "fail"]
       ELSE IF v.attempt + 1 >= MAX_POLL_ATTEMPTS
           THEN [polled EXCEPT !.attempt = @ + 1, !.pc = "done", !.why = "timeout"]
       ELSE [polled EXCEPT !.attempt = @ + 1]

\* What the download of the solution can give: a transport error, an empty
\* object, an object without "routes", an empty list of routes, or routes.
Solutions(J, A) ==
    {[kind |-> k, steps |-> [v \in A |-> <<>>], geometry |-> [v \in A |-> <<>>],
      listEmpty |-> FALSE] :
        k \in {"error", "empty", "no_routes_key", "zero_routes"}}
    \cup
    {[kind |-> "ok", steps |-> st, geometry |-> [v \in A |-> st[v]], listEmpty |-> le] :
        st \in SolverRoutes(J, A), le \in BOOLEAN}

\* _process_vrp_solution(solution, ...): one result per route that visits an order.
process_vrp_solution(sol, vs) ==
    IF sol.kind = "ok" THEN ParseRoutes(sol, SortedSeq(vs)) ELSE <<>>

\* solve_vrp_2gis(orders, couriers) up to the submit.
Vrp2gisStart(key, given, cs) ==
    /\ vrp.pc = "idle"
    /\ LET g == solve_vrp_2gis_guard(key, orders, given, cs)
       IN vrp' = [IdleVrp EXCEPT !.adapter = "2gis",
                                 !.given = given,
                                 !.jobs = JobsOf(orders, given),
                                 !.vehicles = cs,
                                 !.pc = IF g = "submit" THEN "create" ELSE "done",
                                 !.why = g]
    /\ UNCHANGED <<orders, routes, nextRid, points, couriers, plan, bot, edit, resp, geo, build, fsm>>

\* task_id = _create_vrp_task(payload); if not task_id: return []
Vrp2gisCreate ==
    /\ vrp.pc = "create"
    /\ \E ans \in {"task", "no_task_id", "error"} :
        vrp' = [vrp EXCEPT !.submits = @ + 1,
                           !.seen = IF ans = "error" THEN @ \cup {"submit_error"} ELSE @,
                           !.pc = IF create_vrp_task(ans) THEN "poll" ELSE "done",
                           !.why = IF create_vrp_task(ans) THEN @ ELSE "no_task"]
    /\ UNCHANGED <<orders, routes, nextRid, points, couriers, plan, bot, edit, resp, geo, build, fsm>>

\* One status request of _poll_vrp_status.
Vrp2gisPoll ==
    /\ vrp.pc = "poll"
    /\ \E ans \in PollAnswers : vrp' = poll_vrp_status(vrp, ans)
    /\ UNCHANGED <<orders, routes, nextRid, points, couriers, plan, bot, edit, resp, geo, build, fsm>>

\* _fetch_solution(url); "if not solution: return []"; _process_vrp_solution.
Vrp2gisFetch ==
    /\ vrp.pc = "fetch"
    /\ \E sol \in Solutions(vrp.jobs, vrp.vehicles) :
        LET listed == {v \in vrp.vehicles : sol.kind = "ok" /\ (sol.listEmpty \/ sol.steps[v] # <<>>)}
            event == IF sol.kind = "error" THEN {"download_error"}
                     ELSE IF sol.kind \in {"empty", "no_routes_key"} THEN {"no_routes"}
                     ELSE IF listed = {} THEN {"zero_routes"}
                     ELSE {}
        IN vrp' = [vrp EXCEPT !.pc = "done",
                              !.seen = @ \cup event,
                              !.why = sol.kind,
                              !.result = [exc |-> FALSE, data |-> process_vrp_solution(sol, listed)]]
    /\ UNCHANGED <<orders, routes, nextRid, points, couriers, plan, bot, edit, resp, geo, build, fsm>>

\* One call solve_vrp(orders, couriers) of the OpenRouteService adapter.
VrpOrs(given, cs) ==
    /\ vrp.pc = "idle"
    /\ \E raw \in SolverResponses(JobsOf(orders, given), cs) :
        LET res == solve_vrp(orders, given, cs, raw)
            listed == {v \in cs : raw.listEmpty \/ raw.steps[v] # <<>>}
            event == IF ~res.called THEN {}
                     ELSE IF raw.kind = "api_error" THEN {"submit_error"}
                     ELSE IF raw.kind = "no_routes_key" THEN {"no_routes"}
                     ELSE IF raw.kind = "malformed" THEN {"malformed"}
                     ELSE IF listed = {} THEN {"zero_routes"}
                     ELSE {}
        IN vrp' = [IdleVrp EXCEPT !.adapter = "ors",
                                  !.pc = "done",
                                  !.given = given,
                                  !.jobs = JobsOf(orders, given),
                                  !.vehicles = cs,
                                  !.submits = IF res.called THEN 1 ELSE 0,
                                  !.seen = event,
                                  !.why = IF res.called THEN raw.kind ELSE "not_sent",
                                  !.result = [exc |-> res.exc, data |-> res.data]]
    /\ UNCHANGED <<orders, routes, nextRid, points, couriers, plan, bot, edit, resp, geo, build, fsm>>

\* --------------------------------------------------- couriers (app.py handlers)
\* A delete that takes the courier's routes with it (a cascading delete).
CourierDeleteRows_cascade(cs, rs, c) ==
    IF c \notin cs
        THEN [couriers |-> cs, routes |-> rs, success |-> FALSE, code |-> 404]
    ELSE [couriers |-> cs \ {c},
          routes |-> [r \in RouteIds |-> IF rs[r].exists /\ rs[r].courier_id = c THEN NoRoute ELSE rs[r]],
          success |-> TRUE, code |-> 200]

\* DELETE /api/couriers/<id>: 404 for no such courier, 400 when the courier has
\* active routes.  Deleting a courier that still has other routes makes the
\* session set routes.courier_id to NULL, which the NOT NULL column refuses:
\* the commit raises and nothing is written (500).
CourierDeleteRows(cs, rs, c) ==
    IF c \notin cs
        THEN [couriers |-> cs, routes |-> rs, success |-> FALSE, code |-> 404]
    ELSE IF \E r \in RouteIds : rs[r].exists /\ rs[r].courier_id = c /\ rs[r].status = "active"
        THEN [couriers |-> cs, routes |-> rs, success |-> FALSE, code |-> 400]
    ELSE IF \E r \in RouteIds : rs[r].exists /\ rs[r].courier_id = c
        THEN [couriers |-> cs, routes |-> rs, success |-> FALSE, code |-> 500]
    ELSE [couriers |-> cs \ {c}, routes |-> rs, success |-> TRUE, code |-> 200]

CourierDelete(c) ==
    /\ LET res == CourierDeleteRows(couriers, routes, c)
       IN /\ couriers' = res.couriers
          /\ routes' = res.routes
          /\ resp' = [courier |-> c, success |-> res.success, code |-> res.code]
    /\ edit' = NoEdit
    /\ UNCHANGED <<orders, nextRid, points, plan, bot, vrp, geo, build, fsm>>

\* ------------------- problem builders (optimizer.py, optimizer_2gis.py)
\* The dates of the model: the date a plan is requested for and the day the
\* request runs on are drawn from them.
Days == {1, 2}

\* Order.time_window_start / time_window_end: NULL, a string that does not
\* parse as HH:MM, or a time of day.
Times == {"none", "bad", "10:00", "14:00"}

Parses(t) == t \in {"10:00", "14:00"}

\* map(int, t.split(':')), the hour of a time that parses
HourOf(t) == CASE t = "10:00" -> 10 [] t = "14:00" -> 14

\* The columns of an order that the builders read.
StopRows ==
    [lat : BOOLEAN,
     type : {"delivery", "pickup"},
     required_courier_id : {None} \cup CourierIds,
     courier_id : {None} \cup CourierIds,
     time_window_start : Times,
     time_window_end : Times]

\* get_time_windows of solve_vrp: one window of instants (day, hour) on the
\* base date, which is route_date when the caller gave one and today otherwise;
\* the declared window when both ends are set and parse, else 09:00-18:00.
get_time_windows(order, route_date, now) ==
    LET base_date == IF route_date # None THEN route_date ELSE now
        declared == /\ order.time_window_start # "none"
                    /\ order.time_window_end # "none"
                    /\ Parses(order.time_window_start)
                    /\ Parses(order.time_window_end)
        start_h == IF declared THEN HourOf(order.time_window_start) ELSE 9
        end_h == IF declared THEN HourOf(order.time_window_end) ELSE 18
    IN <<[start |-> [day |-> base_date, hour |-> start_h],
         end |-> [day |-> base_date, hour |-> end_h]]>>

\* A variant of ors_job in which a direct assignment also becomes a skill.
ors_job_soft(order, route_date, now) ==
    [skills |-> IF order.required_courier_id # None THEN {order.required_courier_id}
                ELSE IF order.courier_id # None THEN {order.courier_id}
                ELSE {},
     time_windows |-> get_time_windows(order, route_date, now)]

\* optimization.Job(id, location, service, skills, time_windows) as solve_vrp
\* builds it for one order: the skill of the required courier if there is one
\* (no skill otherwise), and the window.  The job has no other attribute of
\* the order.
ors_job(order, route_date, now) ==
    [skills |-> IF order.required_courier_id # None THEN {order.required_courier_id} ELSE {},
     time_windows |-> get_time_windows(order, route_date, now)]

\* The jobs loop of solve_vrp over a list of one order: an order without
\* coordinates is skipped.
ors_jobs(order, route_date, now) ==
    IF ~order.lat THEN <<>> ELSE <<ors_job(order, route_date, now)>>

\* The vehicles loop of solve_vrp: each vehicle has the one skill of its courier.
ors_vehicles(cs) == {[id |-> c, skills |-> {c}] : c \in cs}

\* _get_time_windows of the 2GIS adapter: seconds from midnight, or nothing
\* when an end is missing or does not parse.
gis_get_time_windows(order, route_date) ==
    IF order.time_window_start = "none" \/ order.time_window_end = "none" THEN <<>>
    ELSE IF ~(Parses(order.time_window_start) /\ Parses(order.time_window_end)) THEN <<>>
    ELSE <<[start |-> HourOf(order.time_window_start) * 3600,
            end |-> HourOf(order.time_window_end) * 3600]>>

\* _build_waypoints for one order (a key the code leaves out is 0 or <<>> here).
build_waypoint(order, route_date) ==
    [delivery_value |-> IF order.type = "delivery" THEN 1 ELSE 0,
     pickup_value |-> IF order.type = "delivery" THEN 0 ELSE 1,
     time_windows |-> gis_get_time_windows(order, route_date)]

\* valid_orders and _build_waypoints of solve_vrp_2gis over a list of one order.
build_waypoints(order, route_date) ==
    IF ~order.lat THEN <<>> ELSE <<build_waypoint(order, route_date)>>

\* _build_agents: an agent per courier, with nothing that ties it to an order.
build_agents(cs) == {[agent_id |-> c] : c \in cs}

IdleBuild ==
    [pc |-> "idle",
     order |-> [lat |-> TRUE, type |-> "delivery", required_courier_id |-> None,
                courier_id |-> None, time_window_start |-> "none", time_window_end |-> "none"],
     date |-> 1, now |-> 1,
     ors |-> FALSE, jobs |-> <<>>, vehicles |-> {},
     gis |-> FALSE, waypoints |-> <<>>, agents |-> {}]

\* The call of api_routes_optimize: solve_vrp(group_orders, available_couriers,
\* depot_coords), which passes no route_date.
BuildOrs ==
    /\ build.pc = "input"
    /\ ~build.ors
    /\ build' = [build EXCEPT !.ors = TRUE,
                              !.jobs = ors_jobs(build.order, None, build.now),
                              !.vehicles = ors_vehicles(couriers)]
    /\ UNCHANGED <<orders, routes, nextRid, points, couriers, plan, bot, edit, resp, vrp, geo, fsm>>

\* solve_vrp_2gis(orders, couriers, depot, route_date) up to the payload.
BuildGis ==
    /\ build.pc = "input"
    /\ ~build.gis
    /\ build' = [build EXCEPT !.gis = TRUE,
                              !.waypoints = build_waypoints(build.order, build.date),
                              !.agents = build_agents(couriers)]
    /\ UNCHANGED <<orders, routes, nextRid, points, couriers, plan, bot, edit, resp, vrp, geo, fsm>>

\* ----------------------------------------------------- points (app.py handlers)
\* A row of table points as the handlers of /api/points see it.
NoDepot == [exists |-> FALSE, user_id |-> None, is_primary |-> FALSE, coords |-> FALSE]

\* POST /api/points by user u: with make_primary the flag is taken from every
\* point of the user, then the new point is added with the flag as requested.
PostPoint(ps, p, u, make_primary, coords) ==
    [q \in DepotIds |->
        IF q = p
            THEN [exists |-> TRUE, user_id |-> u, is_primary |-> make_primary, coords |-> coords]
        ELSE IF make_primary /\ ps[q].exists /\ ps[q].user_id = u
            THEN [ps[q] EXCEPT !.is_primary = FALSE]
        ELSE ps[q]]

PointCreate(p, u, make_primary, coords) ==
    /\ ~points[p].exists
    /\ points' = PostPoint(points, p, u, make_primary, coords)
    /\ UNCHANGED <<orders, routes, nextRid, couriers, plan, bot, edit, resp, vrp, geo, build, fsm>>

\* A PUT that sets the flag and leaves the other points of the user alone.
PutPoint_keep(ps, p, make_primary) ==
    [ps EXCEPT ![p].is_primary = make_primary]

\* PUT /api/points/<id> with make_primary: the flag of the point is set as
\* requested and, when it is set, taken from the other points of the point's user.
PutPoint(ps, p, make_primary) ==
    [q \in DepotIds |->
        IF q = p THEN [ps[q] EXCEPT !.is_primary = make_primary]
        ELSE IF make_primary /\ ps[q].exists /\ ps[q].user_id = ps[p].user_id
            THEN [ps[q] EXCEPT !.is_primary = FALSE]
        ELSE ps[q]]

PointPut(p, make_primary) ==
    /\ points[p].exists
    /\ points' = PutPoint(points, p, make_primary)
    /\ UNCHANGED <<orders, routes, nextRid, couriers, plan, bot, edit, resp, vrp, geo, build, fsm>>

\* DELETE /api/points/<id>: a primary point is kept while another point exists.
DeletePoint(ps, p) ==
    IF ps[p].is_primary /\ (\E q \in DepotIds \ {p} : ps[q].exists)
        THEN ps
        ELSE [ps EXCEPT ![p] = NoDepot]

PointDelete(p) ==
    /\ points[p].exists
    /\ points' = DeletePoint(points, p)
    /\ UNCHANGED <<orders, routes, nextRid, couriers, plan, bot, edit, resp, vrp, geo, build, fsm>>

\* ------------------------------------------------------------ specifications
OrderRows ==
    [status : {"planned", "in_progress", "completed", "failed"},
     route_id : {None} \cup RouteIds,
     route_position : {NoPos} \cup (0..(NumOrders - 1)),
     point_id : {None} \cup PointIds,
     lat : BOOLEAN,
     proof_image : BOOLEAN,
     failure_reason : BOOLEAN,
     visit_date : Days]

PointRows == [exists : BOOLEAN, coords : BOOLEAN, is_primary : BOOLEAN]

\* A database before any route exists: new orders, some couriers, some points.
InitPlan ==
    /\ orders \in [OrderIds -> {row \in OrderRows :
                        /\ row.status = "planned"
                        /\ row.route_id = None
                        /\ row.route_position = NoPos
                        /\ ~row.proof_image
                        /\ ~row.failure_reason
                        /\ row.visit_date = 1}]
    /\ routes = [r \in RouteIds |-> NoRoute]
    /\ nextRid = 1
    /\ points \in [PointIds -> {row \in PointRows : row.exists \/ (~row.coords /\ ~row.is_primary)}]
    /\ Cardinality({p \in PointIds : points[p].is_primary}) <= 1
    /\ couriers \in {1..k : k \in 0..NumCouriers}
    /\ plan = [p \in Planners |-> IdlePlan]
    /\ bot = [h \in Handlers |-> IdleBot]
    /\ edit = NoEdit
    /\ resp = NoResp
    /\ vrp = IdleVrp
    /\ geo = IdleGeo
    /\ build = IdleBuild
    /\ fsm = NoFsm

\* A database in which route 1 exists, active, holding some of the orders in the
\* order of their ids, the orders' statuses drawn from sts.
InitRoute(sts) ==
    /\ \E L \in {SortedSeq(S) : S \in (SUBSET OrderIds) \ {{}}} :
        orders \in [OrderIds -> {row \in OrderRows :
                        /\ row.status \in sts
                        /\ row.point_id = None
                        /\ row.lat
                        /\ ~row.proof_image
                        /\ ~row.failure_reason
                        /\ row.visit_date = 1}]
        /\ \A o \in OrderIds :
            IF o \in Range(L)
                THEN orders[o].route_id = 1 /\ orders[o].route_position = LastIndex(L, o) - 1
                ELSE orders[o].route_id = None /\ orders[o].route_position = NoPos
    /\ routes = [r \in RouteIds |->
                    IF r = 1 THEN [exists |-> TRUE, courier_id |-> 1, status |-> "active",
                                   plan |-> "none", date |-> 1, geometry |-> <<>>]
                    ELSE NoRoute]
    /\ nextRid = 2
    /\ points = [p \in PointIds |-> [exists |-> TRUE, coords |-> TRUE, is_primary |-> p = 1]]
    /\ couriers = CourierIds
    /\ plan = [p \in Planners |-> IdlePlan]
    /\ bot = [h \in Handlers |-> IdleBot]
    /\ edit = NoEdit
    /\ resp = NoResp
    /\ vrp = IdleVrp
    /\ geo = IdleGeo
    /\ build = IdleBuild
    /\ fsm = NoFsm

\* Route 1 with every order still to be served.
InitLife == InitRoute({"planned"})

\* Route 1 with orders to be served and orders whose status the dispatcher has
\* set to completed (PUT /api/orders/<id>).
InitEdit == InitRoute({"planned", "completed"})

\* One driver marking stops, one marking at a time.
NextMark ==
    \/ \E o \in OrderIds : PhotoRead("h1", o)
    \/ PhotoCommit("h1")
    \/ \E o \in OrderIds : FailCommit("h1", o)
    \/ CheckRoute("h1")

SpecMark == InitLife /\ [][NextMark]_vars

\* Terminal markings handled concurrently by the bot.
NextRace ==
    \/ \E h \in Handlers, o \in OrderIds : PhotoRead(h, o)
    \/ \E h \in Handlers : PhotoCommit(h)
    \/ \E h \in Handlers, o \in OrderIds : FailCommit(h, o)
    \/ \E h \in Handlers : CheckRoute(h)

SpecRace == InitLife /\ [][NextRace]_vars

\* One driver marking stops while the dispatcher creates routes from orders,
\* updates the status of routes and deletes routes.
Next ==
    \/ \E o \in OrderIds : PhotoRead("h1", o)
    \/ PhotoCommit("h1")
    \/ \E o \in OrderIds : FailCommit("h1", o)
    \/ CheckRoute("h1")
    \/ \E c \in CourierIds, S \in SUBSET OrderIds : RouteCreate(c, "active", SortedSeq(S))
    \/ \E r \in RouteIds, st \in {"active", "completed"} : RoutePut(r, TRUE, st, None)
    \/ \E r \in RouteIds : RouteDelete(r)

Spec == InitLife /\ [][Next]_vars

\* One driver marking stops while the dispatcher moves orders into new routes.
NextCheck ==
    \/ \E o \in OrderIds : PhotoRead("h1", o)
    \/ PhotoCommit("h1")
    \/ \E o \in OrderIds : FailCommit("h1", o)
    \/ CheckRoute("h1")
    \/ \E S \in SUBSET OrderIds : RouteCreate(1, "active", SortedSeq(S))

SpecCheck == InitLife /\ [][NextCheck]_vars

\* The dispatcher creating and reordering routes.
NextEdit ==
    \/ \E r \in RouteIds, L \in DistinctLists(OrderIds) : RouteEdit(r, L)
    \/ \E st \in {"active", "completed"}, S \in SUBSET OrderIds : RouteCreate(1, st, SortedSeq(S))

SpecEdit == InitEdit /\ [][NextEdit]_vars

NextPlan ==
    \/ PlanStart("p1")
    \/ PlanGroup("p1")
    \/ PlanCommit("p1")

SpecPlan == InitPlan /\ [][NextPlan]_vars

\* A database at rest: orders to be planned, no route, nobody at work.
QuietDb ==
    /\ orders = [o \in OrderIds |->
                    [status |-> "planned", route_id |-> None, route_position |-> NoPos,
                     point_id |-> None, lat |-> TRUE, proof_image |-> FALSE,
                     failure_reason |-> FALSE, visit_date |-> 1]]
    /\ routes = [r \in RouteIds |-> NoRoute]
    /\ nextRid = 1
    /\ points = [p \in PointIds |-> [exists |-> TRUE, coords |-> TRUE, is_primary |-> p = 1]]
    /\ couriers = CourierIds
    /\ plan = [p \in Planners |-> IdlePlan]
    /\ bot = [h \in Handlers |-> IdleBot]
    /\ edit = NoEdit
    /\ resp = NoResp

\* Coordinates (degrees times 1e5) around zero and around the value at which a
\* difference needs a second character.
CoordValues == {-MaxCoord, -1, 0, 1, MaxCoord - 1}

\* The coordinate sequences converted.
Paths == UNION {[1..n -> CoordValues \X CoordValues] : n \in 0..MaxPathLen}

\* Characters of a stored geometry: "?" (0), "@" (1), "_" (32) and "`" (33) of
\* the alphabet, and a blank, which is outside of it.
Chars == {63, 64, 95, 96, 32}

\* The geometry strings decoded: a NULL geometry and short strings.
Texts ==
    {NoText} \cup
    {[none |-> FALSE, text |-> t] : t \in UNION {[1..n -> Chars] : n \in 0..MaxTextLen}}

InitGeo ==
    /\ QuietDb
    /\ vrp = IdleVrp
    /\ geo \in {[IdleGeo EXCEPT !.pc = "coords", !.coords = c] : c \in Paths}
            \cup {[IdleGeo EXCEPT !.pc = "text", !.encoded = t] : t \in Texts}
    /\ build = IdleBuild
    /\ fsm = NoFsm

NextGeo ==
    \/ GeoEncode
    \/ GeoDecode
    \/ GeoView

SpecGeo == InitGeo /\ [][NextGeo]_vars

\* Orders with and without coordinates, and a solver adapter about to be called.
InitVrp ==
    /\ orders \in [OrderIds -> {row \in OrderRows :
                        /\ row.status = "planned"
                        /\ row.route_id = None
                        /\ row.route_position = NoPos
                        /\ row.point_id = None
                        /\ ~row.proof_image
                        /\ ~row.failure_reason
                        /\ row.visit_date = 1}]
    /\ routes = [r \in RouteIds |-> NoRoute]
    /\ nextRid = 1
    /\ points = [p \in PointIds |-> [exists |-> TRUE, coords |-> TRUE, is_primary |-> p = 1]]
    /\ couriers = CourierIds
    /\ plan = [p \in Planners |-> IdlePlan]
    /\ bot = [h \in Handlers |-> IdleBot]
    /\ edit = NoEdit
    /\ resp = NoResp
    /\ vrp = IdleVrp
    /\ geo = IdleGeo
    /\ build = IdleBuild
    /\ fsm = NoFsm

NextVrp ==
    \/ \E key \in BOOLEAN, S \in SUBSET OrderIds, cs \in SUBSET CourierIds :
            Vrp2gisStart(key, SortedSeq(S), cs)
    \/ Vrp2gisCreate
    \/ Vrp2gisPoll
    \/ Vrp2gisFetch
    \/ \E S \in SUBSET OrderIds, cs \in SUBSET CourierIds : VrpOrs(SortedSeq(S), cs)

SpecVrp == InitVrp /\ [][NextVrp]_vars

\* One call of the 2GIS adapter with every order and one courier.
InitPoll ==
    /\ QuietDb
    /\ vrp = IdleVrp
    /\ geo = IdleGeo
    /\ build = IdleBuild
    /\ fsm = NoFsm

NextPoll ==
    \/ Vrp2gisStart(TRUE, SortedSeq(OrderIds), {1})
    \/ Vrp2gisCreate
    \/ Vrp2gisPoll
    \/ Vrp2gisFetch

\* The adapter is a synchronous function: once called, it runs on until it returns.
SpecPoll == InitPoll /\ [][NextPoll]_vars /\ WF_vars(NextPoll)

\* The dispatcher managing couriers and routes.
NextCourier ==
    \/ \E c \in CourierIds : CourierDelete(c)
    \/ \E c \in CourierIds, S \in SUBSET OrderIds : RouteCreate(c, "active", SortedSeq(S))
    \/ \E r \in RouteIds, st \in {"active", "completed"} : RoutePut(r, TRUE, st, None)
    \/ \E r \in RouteIds : RouteDelete(r)

SpecCourier == InitLife /\ [][NextCourier]_vars

\* The dispatcher updating orders, reordering and deleting routes that hold
\* served orders.
NextStop ==
    \/ \E o \in OrderIds, st \in {"planned", "in_progress", "completed", "failed"} : OrderPut(o, st)
    \/ \E r \in RouteIds, L \in DistinctLists(OrderIds) : RouteEdit(r, L)
    \/ \E r \in RouteIds : RouteDelete(r)

SpecStop == InitEdit /\ [][NextStop]_vars

\* Orders to be planned, the first of a point of its own and the others of the
\* default point, and two requests to /api/routes/optimize for the same date
\* about to arrive.
InitTwo ==
    /\ orders = [o \in OrderIds |->
                    [status |-> "planned", route_id |-> None, route_position |-> NoPos,
                     point_id |-> IF o = 1 THEN 1 ELSE None, lat |-> TRUE,
                     proof_image |-> FALSE, failure_reason |-> FALSE, visit_date |-> 1]]
    /\ routes = [r \in RouteIds |-> NoRoute]
    /\ nextRid = 1
    /\ points = [p \in PointIds |-> [exists |-> TRUE, coords |-> TRUE, is_primary |-> p = 1]]
    /\ couriers = CourierIds
    /\ plan = [p \in Planners |-> IdlePlan]
    /\ bot = [h \in Handlers |-> IdleBot]
    /\ edit = NoEdit
    /\ resp = NoResp
    /\ vrp = IdleVrp
    /\ geo = IdleGeo
    /\ build = IdleBuild
    /\ fsm = NoFsm

\* The two requests run in their own workers, each step of one between any two
\* steps of the other.
NextTwo ==
    \/ PlanStart("p1")
    \/ PlanGroup("p1")
    \/ PlanCommit("p1")
    \/ PlanStart("p2")
    \/ PlanGroup("p2")
    \/ PlanCommit("p2")

SpecTwo == InitTwo /\ [][NextTwo]_vars

\* A database with route 1 and orders of the requested date and of another,
\* planned or served, free or on route 1, and one request to plan a date.
InitFrame ==
    /\ orders \in [OrderIds -> {row \in OrderRows :
                        /\ row.status \in {"planned", "completed"}
                        /\ row.route_id \in {None, 1}
                        /\ row.route_position = NoPos
                        /\ row.point_id = None
                        /\ row.lat
                        /\ ~row.proof_image
                        /\ ~row.failure_reason}]
    /\ routes = [r \in RouteIds |->
                    IF r = 1 THEN [exists |-> TRUE, courier_id |-> 1, status |-> "active",
                                   plan |-> "none", date |-> 1, geometry |-> <<>>]
                    ELSE NoRoute]
    /\ nextRid = 2
    /\ points = [p \in PointIds |-> [exists |-> TRUE, coords |-> TRUE, is_primary |-> p = 1]]
    /\ couriers = CourierIds
    /\ plan \in {[p \in Planners |-> [IdlePlan EXCEPT !.date = d]] : d \in Days}
    /\ bot = [h \in Handlers |-> IdleBot]
    /\ edit = NoEdit
    /\ resp = NoResp
    /\ vrp = IdleVrp
    /\ geo = IdleGeo
    /\ build = IdleBuild
    /\ fsm = NoFsm

SpecFrame == InitFrame /\ [][NextPlan]_vars

\* An empty table of points, and the users adding, updating and deleting points.
InitPoints ==
    /\ orders = [o \in OrderIds |->
                    [status |-> "planned", route_id |-> None, route_position |-> NoPos,
                     point_id |-> None, lat |-> TRUE, proof_image |-> FALSE,
                     failure_reason |-> FALSE, visit_date |-> 1]]
    /\ routes = [r \in RouteIds |-> NoRoute]
    /\ nextRid = 1
    /\ points = [p \in DepotIds |-> NoDepot]
    /\ couriers = CourierIds
    /\ plan = [p \in Planners |-> IdlePlan]
    /\ bot = [h \in Handlers |-> IdleBot]
    /\ edit = NoEdit
    /\ resp = NoResp
    /\ vrp = IdleVrp
    /\ geo = IdleGeo
    /\ build = IdleBuild
    /\ fsm = NoFsm

NextPoints ==
    \/ \E p \in DepotIds, u \in Users, make_primary \in BOOLEAN, coords \in BOOLEAN :
            PointCreate(p, u, make_primary, coords)
    \/ \E p \in DepotIds, make_primary \in BOOLEAN : PointPut(p, make_primary)
    \/ \E p \in DepotIds : PointDelete(p)

SpecPoints == InitPoints /\ [][NextPoints]_vars

\* One driver in the dialogue of the bot: buttons, photos and texts in any order.
NextDialog ==
    \/ \E o \in OrderIds : CallbackDelivered(o)
    \/ \E o \in OrderIds : CallbackFailed(o)
    \/ CallbackCancel
    \/ MessagePhoto
    \/ \E menu \in BOOLEAN : MessageText(menu)

SpecDialog == InitLife /\ [][NextDialog]_vars

\* The declared windows of an order: none, both ends, an end that does not
\* parse, one end only.
Windows == {<<"none", "none">>, <<"10:00", "14:00">>, <<"bad", "14:00">>, <<"10:00", "none">>}

\* One order of a plan requested for a date, on the day of the request or on
\* another day, about to be handed to the builders.
InitBuild ==
    /\ QuietDb
    /\ vrp = IdleVrp
    /\ geo = IdleGeo
    /\ build \in {[IdleBuild EXCEPT !.pc = "input", !.order = o, !.date = d, !.now = n] :
                    o \in {row \in StopRows :
                            <<row.time_window_start, row.time_window_end>> \in Windows},
                    d \in Days, n \in Days}
    /\ fsm = NoFsm

NextBuild ==
    \/ BuildOrs
    \/ BuildGis

SpecBuild == InitBuild /\ [][NextBuild]_vars

\* ------------------------------------------------------------------ claims
\* The routes of table routes that request p created.
CreatedBy(p) == {r \in RouteIds : routes[r].exists /\ routes[r].plan = p}

\* The groups of request p for which a route was added.
ServedKeys(pl) == {pl.pending[i].key : i \in 1..Len(pl.pending)}

\* C1: within one planning request no courier owns two of the routes it
\* creates, and a courier that already received a route is not among the
\* couriers offered to the solver for the next group.
C1_NoCourierTwice ==
    LET pl == plan["p1"]
    IN /\ \A i, j \in 1..Len(pl.pending) :
            pl.pending[i].courier_id = pl.pending[j].courier_id => i = j
       /\ \A i \in 1..Len(pl.pending) :
            pl.pending[i].courier_id \notin AvailableCouriers(pl.couriers, pl.used)
       /\ pl.pc = "done" =>
            \A r1, r2 \in CreatedBy("p1") :
                routes[r1].courier_id = routes[r2].courier_id => r1 = r2

\* Two groups were served in one request, by two couriers.
C1_Witness ==
    LET pl == plan["p1"]
    IN /\ pl.pc = "done"
       /\ Len(pl.pending) = 2
       /\ pl.pending[1].key # pl.pending[2].key
       /\ Cardinality(CreatedBy("p1")) = 2

\* C7: after a planning request, the stops of every route it created carry the
\* positions 0..n-1, the stop at position i being the i-th stop of the order
\* the solver returned.
C7_PositionsFollowSolverOrder ==
    LET pl == plan["p1"]
    IN pl.pc = "done" =>
        \A i \in 1..Len(pl.pending) :
            \A k \in 1..Len(pl.pending[i].order_ids) :
                LET o == pl.pending[i].order_ids[k]
                IN orders[o].route_id = pl.pending[i].id /\ orders[o].route_position = k - 1

\* C9: a planning request answers success exactly when it created a route;
\* a failure carries every reason, a success the ids of the routes and the
\* reasons of the groups that failed as warnings.
C9_ResultMatchesRoutes ==
    LET pl == plan["p1"]
        res == pl.result
    IN pl.pc = "done" =>
        /\ res.success <=> CreatedBy("p1") # {}
        /\ ~res.success =>
            /\ res.routes_ids = <<>>
            /\ Len(res.message) >= 1
            /\ pl.groups # <<>> => Len(res.message) = Len(pl.groups)
        /\ res.success =>
            /\ Range(res.routes_ids) = CreatedBy("p1")
            /\ Len(res.routes_ids) = Cardinality(CreatedBy("p1"))
            /\ Len(res.message) = Len(pl.groups) - Cardinality(ServedKeys(pl))
            /\ \A i \in 1..Len(res.message) : res.message[i].key \notin ServedKeys(pl)

\* A success with a warning: one group got its route, another failed.
C9_Witness ==
    LET pl == plan["p1"]
    IN /\ pl.pc = "done"
       /\ pl.result.success
       /\ pl.result.message # <<>>
       /\ pl.result.routes_ids # <<>>

\* s is t, or t with elements appended.
IsPrefix(s, t) == Len(s) <= Len(t) /\ \A i \in 1..Len(s) : s[i] = t[i]

\* C10: a group that fails adds no route, links no stop, uses no courier and
\* records exactly one reason; the loop goes on with the next group, and the
\* routes of the earlier groups are kept.
C10_FailedGroupIsSkipped ==
    [][LET pl == plan["p1"]
           pl2 == plan'["p1"]
       IN (pl.pc = "groups" /\ pl2.pc = "groups" /\ pl2.gi # pl.gi) =>
            LET g == pl.groups[pl.gi]
                nodepot == g.key = None /\
                            (pl.default_point = None \/ ~points[pl.default_point].coords)
                nocourier == pl.couriers \ {pl.pending[i].courier_id : i \in 1..Len(pl.pending)} = {}
                nojobs == \A o \in Range(g.orders) : ~orders[o].lat
            IN /\ pl2.gi = pl.gi + 1
               /\ IsPrefix(pl.created, pl2.created)
               /\ IsPrefix(pl.pending, pl2.pending)
               /\ IsPrefix(pl.errors, pl2.errors)
               /\ (nodepot \/ nocourier \/ nojobs) => pl2.created = pl.created
               /\ pl2.created = pl.created =>
                    /\ Len(pl2.errors) = Len(pl.errors) + 1
                    /\ pl2.errors[Len(pl2.errors)].key = g.key
                    /\ pl2.pending = pl.pending
                    /\ pl2.used = pl.used
               /\ pl2.created # pl.created => pl2.errors = pl.errors
               /\ orders' = orders /\ routes' = routes
      ]_vars

\* A request that served one group and then found no courier left for the next.
C10_Witness ==
    LET pl == plan["p1"]
    IN /\ pl.pc = "done"
       /\ Len(pl.groups) = 2
       /\ Len(pl.created) = 1
       /\ Len(pl.errors) = 1
       /\ pl.errors[1].kind = "no_couriers"
       /\ routes[pl.created[1]].exists

\* A step in which handler h runs its auto-completion check and ends.
CheckStep(h) == bot[h].pc = "check" /\ bot'[h].pc = "idle"

\* Route r is active and holds at least one stop, all of them completed or failed.
AllDone(rs, os, r) ==
    /\ r # None
    /\ rs[r].exists
    /\ rs[r].status = "active"
    /\ LinkedOrders(os, r) # {}
    /\ \A o \in LinkedOrders(os, r) : os[o].status \in {"completed", "failed"}

\* C2: for an active route that holds the marked stop, a terminal marking that
\* leaves a linked stop unserved leaves the route active and reports nothing;
\* the marking after which every linked stop is completed or failed makes the
\* route completed before the handler ends and reports it.
C2_AutoCompletion ==
    [][LET h == "h1"
           r == bot[h].route_id
       IN /\ (bot[h].pc # "check" /\ bot'[h].pc = "check") => routes' = routes
          /\ (CheckStep(h) /\ r # None /\ routes[r].exists /\ routes[r].status = "active"
                /\ LinkedOrders(orders, r) # {}) =>
                IF \A o \in LinkedOrders(orders, r) : orders[o].status \in {"completed", "failed"}
                    THEN routes'[r].status = "completed" /\ bot'[h].ret
                    ELSE routes'[r].status = "active" /\ ~bot'[h].ret
      ]_vars

\* Stop 1 was delivered, then stop 2 failed: the marking of stop 2 completed route 1.
C2_Witness ==
    /\ bot["h1"].pc = "idle"
    /\ bot["h1"].order_id = 2
    /\ bot["h1"].ret
    /\ orders[1].route_id = 1 /\ orders[1].status = "completed"
    /\ orders[2].route_id = 1 /\ orders[2].status = "failed"
    /\ routes[1].status = "completed"

\* C3: the check completes a route only when the route is active, holds at
\* least one stop and all its stops are completed or failed; in every other
\* case it returns False and changes no row.
C3_CompletesOnlyWhenAllDone ==
    [][LET h == "h1"
           r == bot[h].route_id
       IN CheckStep(h) =>
            /\ \A q \in RouteIds :
                (routes[q] # routes'[q]) =>
                    /\ q = r
                    /\ AllDone(routes, orders, q)
                    /\ routes'[q] = [routes[q] EXCEPT !.status = "completed"]
            /\ bot'[h].ret => AllDone(routes, orders, r)
            /\ ~AllDone(routes, orders, r) => (~bot'[h].ret /\ routes' = routes)
            /\ orders' = orders
      ]_vars

\* The check ran on a route left without stops: it returned False and the route
\* is still active.
C3_Witness ==
    /\ bot["h1"].pc = "idle"
    /\ bot["h1"].branch = "no_orders"
    /\ ~bot["h1"].ret
    /\ LinkedOrders(orders, bot["h1"].route_id) = {}
    /\ routes[bot["h1"].route_id].status = "active"

\* C4: when two handlers have marked the last unserved stops of route 1 and
\* both have ended, route 1 is completed, whatever the interleaving.
C4_CheckNeverMissesLastStop ==
    ((\A h \in Handlers : bot[h].pc = "idle")
        /\ LinkedOrders(orders, 1) # {}
        /\ \A o \in LinkedOrders(orders, 1) : orders[o].status \in {"completed", "failed"})
    => routes[1].status = "completed"

\* Both handlers ended, each having marked one of two stops of route 1; the
\* second handler's check found the route already completed by the first.
C4_Witness ==
    /\ \A h \in Handlers : bot[h].pc = "idle"
    /\ bot["h1"].order_id = 1 /\ bot["h2"].order_id = 2
    /\ orders[1].route_id = 1 /\ orders[2].route_id = 1
    /\ bot["h1"].ret /\ bot["h2"].branch = "not_active"
    /\ routes[1].status = "completed"

\* C5: the commit of a stop's terminal status and the auto-completion check
\* are one atomic unit against the route: the check targets the route the stop
\* is linked to when its status is written, and between the commit and the
\* check no other request changes that route, the stops it holds or their
\* statuses.
C5_MarkingIsAtomic ==
    [][\A h \in Handlers :
        /\ (bot[h].pc # "check" /\ bot'[h].pc = "check") =>
                bot'[h].route_id = orders[bot'[h].order_id].route_id
        /\ (bot[h].pc = "check" /\ bot'[h].pc = "check" /\ bot[h].route_id # None) =>
                LET r == bot[h].route_id
                IN /\ routes'[r] = routes[r]
                   /\ LinkedOrders(orders', r) = LinkedOrders(orders, r)
                   /\ \A o \in LinkedOrders(orders, r) : orders'[o].status = orders[o].status
      ]_vars

\* C6: a route whose status is completed never becomes active again.
C6_NoResurrection ==
    [][\A r \in RouteIds :
        (routes[r].exists /\ routes[r].status = "completed" /\ routes'[r].exists)
            => routes'[r].status # "active"
      ]_vars

\* C8: a reorder with a list of distinct orders is a bulk replace: the route
\* then holds exactly the orders of the list, each at its index; the orders it
\* held before and the list omits have no route and no position; no status
\* changes.
C8_ReorderReplaces ==
    [][edit'.route # None =>
        LET r == edit'.route
            L == edit'.orders
        IN /\ LinkedOrders(orders', r) = Range(L)
           /\ \A i \in 1..Len(L) : orders'[L[i]].route_position = i - 1
           /\ \A o \in LinkedOrders(orders, r) \ Range(L) :
                    orders'[o].route_id = None /\ orders'[o].route_position = NoPos
           /\ \A o \in OrderIds : orders'[o].status = orders[o].status
      ]_vars

\* Route 1, which held [1, 2], after the reorder [2, 1].
C8_Witness ==
    /\ edit = [route |-> 1, orders |-> <<2, 1>>]
    /\ LinkedOrders(orders, 1) = {1, 2}
    /\ orders[1].route_position = 1
    /\ orders[2].route_position = 0


\* C11: a planning request made when there is no courier answers with the
\* failure "no couriers available" at once: the solver receives no request,
\* and no order and no route is changed or created.
C11_NoCouriersFailsEarly ==
    [][LET pl == plan["p1"]
           pl2 == plan'["p1"]
       IN (couriers = {} /\ pl.pc = "idle" /\ pl2.pc # "idle") =>
            /\ pl2.pc = "done"
            /\ ~pl2.result.success
            /\ pl2.result.message = <<[kind |-> "no_couriers_at_all", key |-> None, n |-> 0]>>
            /\ pl2.result.routes_ids = <<>>
            /\ pl2.calls = <<>>
            /\ orders' = orders /\ routes' = routes /\ nextRid' = nextRid
      ]_vars

\* The request was answered with no courier in the table while an order with
\* coordinates was waiting to be planned.
C11_Witness ==
    /\ couriers = {}
    /\ plan["p1"].pc = "done"
    /\ \E o \in CandidateOrders(orders, plan["p1"].date) : orders[o].lat
    /\ \A r \in RouteIds : ~routes[r].exists

\* C12: for a non-empty sequence of coordinates, decoding what the encoder
\* produced gives the sequence back, with both decoders.
C12_RoundTrip ==
    (geo.pc = "decoded" /\ geo.coords # <<>>) =>
        /\ ~geo.decoded.exc /\ geo.decoded.coords = geo.coords
        /\ ~geo.decoded_2gis.exc /\ geo.decoded_2gis.coords = geo.coords

\* C13: the empty sequence is encoded as the empty string, and the empty
\* string is decoded as the empty sequence.
C13_EmptyRoundTrip ==
    /\ (geo.pc \in {"encoded", "decoded"} /\ geo.coords = <<>>) =>
            (~geo.encoded.none /\ geo.encoded.text = <<>>)
    /\ (geo.pc = "decoded" /\ ~geo.encoded.none /\ geo.encoded.text = <<>>) =>
            (~geo.decoded.exc /\ geo.decoded.coords = <<>>)

\* The characters of the encoding alphabet.
Alphabet == 63..126

RECURSIVE Numbers(_, _)
\* The count of complete numbers in a string read from position i on, or -1
\* when the string ends inside a number.
Numbers(text, i) ==
    IF i > Len(text) THEN 0
    ELSE LET ends == {j \in i..Len(text) : text[j] - 63 < 32}
         IN IF ends = {} THEN -1
            ELSE LET rest == Numbers(text, Min(ends) + 1)
                 IN IF rest = -1 THEN -1 ELSE rest + 1

\* A stored geometry is well formed when every character is of the alphabet
\* and the string is a whole number of latitude/longitude pairs.
WellFormed(enc) ==
    /\ ~enc.none
    /\ \A i \in 1..Len(enc.text) : enc.text[i] \in Alphabet
    /\ Numbers(enc.text, 1) # -1
    /\ Numbers(enc.text, 1) % 2 = 0

\* C14: a malformed geometry string ends in an error: the decoder raises, and
\* the request that decodes the geometry of a route answers with an error,
\* never with a path.
C14_MalformedIsAnError ==
    /\ (geo.pc = "decoded" /\ ~geo.encoded.none /\ ~WellFormed(geo.encoded)) => geo.decoded.exc
    /\ (geo.pc = "viewed" /\ ~geo.encoded.none /\ ~WellFormed(geo.encoded)) => geo.view.code # 200

\* The events the claims name as failures of a solve.
SolveErrors == {"submit_error", "poll_error", "download_error", "no_routes", "zero_routes"}

\* C15: the poll loop of the 2GIS adapter ends after at most
\* MAX_POLL_ATTEMPTS status requests whatever the backend answers; the run
\* goes on to the solution only after Done or Partial, and ends without
\* routes after Fail and when the attempts are used up.
C15_PollTerminates ==
    /\ [](vrp.adapter = "2gis" =>
            /\ vrp.polls <= MAX_POLL_ATTEMPTS
            /\ vrp.attempt <= MAX_POLL_ATTEMPTS
            /\ vrp.pc = "poll" => (vrp.attempt < MAX_POLL_ATTEMPTS
                                    /\ vrp.status \in {"none", "Run", "Unknown", "error"})
            /\ vrp.pc = "fetch" => vrp.status \in {"Done", "Partial"}
            /\ (vrp.pc = "done" /\ vrp.result.data # <<>>) => vrp.status \in {"Done", "Partial"}
            /\ vrp.status = "Fail" => (vrp.pc = "done" /\ vrp.result.data = <<>>)
            /\ vrp.why = "timeout" =>
                    (vrp.pc = "done" /\ vrp.polls = MAX_POLL_ATTEMPTS /\ vrp.result.data = <<>>))
    /\ [][(vrp.pc = "poll" /\ vrp'.status = "Partial" /\ vrp'.pc = "done") => vrp'.why = "no_url"]_vars
    /\ <>(vrp.pc = "done")

\* A run that used up its attempts, and the last answer was a transport error.
C15_Witness ==
    /\ vrp.adapter = "2gis"
    /\ vrp.pc = "done"
    /\ vrp.why = "timeout"
    /\ vrp.polls = MAX_POLL_ATTEMPTS
    /\ vrp.status = "error"

\* C16 as stated: a run of either adapter in which a transport error (at the
\* submit, at a status poll or at the download), an answer without routes
\* section or an answer with no route occurred returns no assignment.
C16_AnyErrorFailsTheSolve ==
    (vrp.pc = "done" /\ vrp.seen \cap SolveErrors # {}) =>
        (vrp.result.data = <<>> /\ ~vrp.result.exc)

\* C16 amended: a transport error at the submit or at the download, an answer
\* without routes section and an answer with no route make the run return no
\* assignment; a transport error at a status poll only uses up one attempt.
C16_ErrorFailsTheSolve ==
    /\ (vrp.pc = "done" /\ vrp.seen \cap (SolveErrors \ {"poll_error"}) # {}) =>
            (vrp.result.data = <<>> /\ ~vrp.result.exc)
    /\ (vrp.pc \in {"create", "poll", "fetch"}) => vrp.seen \subseteq {"poll_error"}
    /\ (vrp.pc = "poll" /\ "poll_error" \in vrp.seen) => vrp.attempt >= 1

\* A 2GIS run that ended with no assignment because the download of the
\* solution failed, after a status poll had failed and the next had answered.
C16_Witness ==
    /\ vrp.adapter = "2gis"
    /\ vrp.pc = "done"
    /\ vrp.seen = {"poll_error", "download_error"}
    /\ vrp.result.data = <<>>

\* C17: an adapter given no order with coordinates, or no courier, sends
\* nothing to the solver and returns no assignment.
C17_EmptyProblemNotSubmitted ==
    /\ vrp.submits > 0 => (vrp.jobs # {} /\ vrp.vehicles # {})
    /\ (vrp.adapter # "none" /\ (vrp.jobs = {} \/ vrp.vehicles = {})) =>
            /\ vrp.pc = "done"
            /\ vrp.submits = 0
            /\ vrp.result.data = <<>> /\ ~vrp.result.exc

\* The 2GIS adapter was given orders, none with coordinates, and couriers.
C17_Witness ==
    /\ vrp.adapter = "2gis"
    /\ vrp.pc = "done"
    /\ vrp.given # <<>>
    /\ vrp.jobs = {}
    /\ vrp.vehicles # {}
    /\ vrp.why = "no_valid_orders"

\* C18: within one planning request the solver receives at most one request
\* per group, and none for a group that has already failed.
C18_GroupSolvedOnce ==
    LET pl == plan["p1"]
    IN /\ \A i, j \in 1..Len(pl.calls) : pl.calls[i].key = pl.calls[j].key => i = j
       /\ Len(pl.calls) <= Len(pl.groups)
       /\ \A i \in 1..Len(pl.calls) :
            \A k \in 1..Len(pl.groups) : pl.groups[k].key = pl.calls[i].key => k < pl.gi
       /\ \A i \in 1..Len(pl.errors) :
            \A k \in 1..Len(pl.groups) : pl.groups[k].key = pl.errors[i].key => k < pl.gi

\* Two groups were sent to the solver, once each; the first solve failed and
\* was not sent again.
C18_Witness ==
    LET pl == plan["p1"]
    IN /\ pl.pc = "done"
       /\ Len(pl.calls) = 2
       /\ Len(pl.errors) >= 1
       /\ pl.errors[1].key = pl.calls[1].key
       /\ pl.errors[1].kind \in {"vrp_error", "no_route"}

\* C19: when a route is deleted, every stop that was linked to it is left
\* planned, with no route and no position, and no stop is deleted.
C19_DeleteUnlinksStops ==
    [][\A r \in RouteIds :
        (routes[r].exists /\ ~routes'[r].exists) =>
            \A o \in LinkedOrders(orders, r) :
                /\ orders'[o].status = "planned"
                /\ orders'[o].route_id = None
                /\ orders'[o].route_position = NoPos
      ]_vars

\* C20: a request to delete a courier that owns an active route is rejected
\* and changes no courier, no route and no order.
C20_CourierWithActiveRouteKept ==
    [][LET c == resp'.courier
       IN (c # None /\ c \in couriers
            /\ \E r \in RouteIds : routes[r].exists /\ routes[r].courier_id = c
                                    /\ routes[r].status = "active") =>
            /\ ~resp'.success
            /\ resp'.code = 400
            /\ couriers' = couriers
            /\ routes' = routes
            /\ orders' = orders
      ]_vars

\* The delete of courier 1 was rejected: it owns route 1, active, with stops.
C20_Witness ==
    /\ resp = [courier |-> 1, success |-> FALSE, code |-> 400]
    /\ 1 \in couriers
    /\ routes[1].exists /\ routes[1].courier_id = 1 /\ routes[1].status = "active"
    /\ LinkedOrders(orders, 1) # {}

\* C22: a stop whose status is completed or failed is immutable: no order
\* update, reorder or route deletion changes its status, its route linkage or
\* its position.
C22_TerminalStopImmutable ==
    [][\A o \in OrderIds :
        Terminal(orders[o].status) =>
            /\ orders'[o].status = orders[o].status
            /\ orders'[o].route_id = orders[o].route_id
            /\ orders'[o].route_position = orders[o].route_position]_vars

\* C23: after a marking, also of a stop that was already terminal, the stop's
\* status and metadata are those of the latest marking: a failed stop carries
\* the failure reason and no proof, a completed stop the proof and no reason.
C23_RemarkOverwrites ==
    \A o \in OrderIds :
        /\ orders[o].status = "failed" => orders[o].failure_reason /\ ~orders[o].proof_image
        /\ orders[o].status = "completed" => orders[o].proof_image /\ ~orders[o].failure_reason

\* The couriers that a solver honouring VROOM skills may give a job to: those
\* whose vehicle has every skill of the job.
OrsAllowed(job, vehicles) == {v.id : v \in {w \in vehicles : job.skills \subseteq w.skills}}

\* The couriers a 2GIS task allows for a waypoint: a waypoint names no agent
\* and an agent no waypoint, so every agent of the task.
GisAllowed(waypoint, agents) == {a.agent_id : a \in agents}

\* C24: for a stop with a required courier, the problem built by either
\* backend's builder allows the stop to be served only by that courier.
C24_RequiredCourierIsExact ==
    build.order.required_courier_id # None =>
        /\ \A i \in 1..Len(build.jobs) :
                OrsAllowed(build.jobs[i], build.vehicles) \subseteq {build.order.required_courier_id}
        /\ \A i \in 1..Len(build.waypoints) :
                GisAllowed(build.waypoints[i], build.agents) \subseteq {build.order.required_courier_id}

\* C25 as claimed: a stop with no required courier and a direct (soft)
\* assignment is constrained to the assigned courier in the built problem.
C25_SoftAssignmentIsHard ==
    (build.order.required_courier_id = None /\ build.order.courier_id # None) =>
        \A i \in 1..Len(build.jobs) :
            OrsAllowed(build.jobs[i], build.vehicles) \subseteq {build.order.courier_id}

\* C25: a stop with no required courier is not constrained to a courier in the
\* built problem, whatever its direct (soft) assignment: every offered courier
\* may serve it.
C25_SoftAssignmentIsNoConstraint ==
    (build.ors /\ build.order.required_courier_id = None) =>
        \A i \in 1..Len(build.jobs) :
            OrsAllowed(build.jobs[i], build.vehicles) = couriers

C25_Witness ==
    /\ build.ors
    /\ Len(build.jobs) = 1
    /\ build.order.required_courier_id = None
    /\ build.order.courier_id # None
    /\ Cardinality(couriers) > 1

\* C26: in the problem built by either backend's builder every stop carries a
\* time window, the declared one when both ends are set and parse, the default
\* working window otherwise; no stop is without a window.
C26_EveryStopHasWindow ==
    LET o == build.order
        declared == Parses(o.time_window_start) /\ Parses(o.time_window_end)
    IN /\ \A i \in 1..Len(build.jobs) :
            /\ Len(build.jobs[i].time_windows) = 1
            /\ build.jobs[i].time_windows[1].start.hour =
                    (IF declared THEN HourOf(o.time_window_start) ELSE 9)
            /\ build.jobs[i].time_windows[1].end.hour =
                    (IF declared THEN HourOf(o.time_window_end) ELSE 18)
       /\ \A i \in 1..Len(build.waypoints) :
            /\ Len(build.waypoints[i].time_windows) >= 1
            /\ declared => build.waypoints[i].time_windows[1].start = HourOf(o.time_window_start) * 3600

\* C27: the time window of every stop in a problem built for a plan of a date
\* starts and ends on that date, whatever the day the plan is made on.
C27_WindowOnServiceDate ==
    \A i \in 1..Len(build.jobs) :
        \A k \in 1..Len(build.jobs[i].time_windows) :
            /\ build.jobs[i].time_windows[k].start.day = build.date
            /\ build.jobs[i].time_windows[k].end.day = build.date

\* The same order of the other kind.
Twin(order) == [order EXCEPT !.type = IF @ = "delivery" THEN "pickup" ELSE "delivery"]

\* C29: the problem built by either backend's builder records the kind of a
\* stop: the entry built for a stop differs from the entry built for a stop
\* that differs from it only in kind.
C29_KindIsRecorded ==
    /\ (build.ors /\ build.order.lat) =>
            build.jobs # ors_jobs(Twin(build.order), None, build.now)
    /\ (build.gis /\ build.order.lat) =>
            build.waypoints # build_waypoints(Twin(build.order), build.date)

\* C30: a stop without a coordinate is in no request sent to the solver, is
\* linked to no route, and a plan that succeeds reports its exclusion: the
\* result has a failure reason or warning for the group of the stop.
C30_MissingCoordinateReported ==
    /\ \A i \in 1..Len(plan["p1"].calls) : \A o \in plan["p1"].calls[i].jobs : orders[o].lat
    /\ \A o \in OrderIds : ~orders[o].lat => orders[o].route_id = None
    /\ (plan["p1"].pc = "done" /\ plan["p1"].result.success) =>
            \A o \in OrderIds :
                ~orders[o].lat =>
                    \E i \in 1..Len(plan["p1"].result.message) :
                        plan["p1"].result.message[i].key = PointKey(points, orders, o)

\* C28: two concurrent plans do not exclude each other.  Each run keeps its own
\* set of used couriers, which holds the couriers of the routes this run added
\* and nothing of the other run's, and within one run no courier gets two
\* routes; a courier with two routes of these runs (C28_Witness) therefore has
\* them from the two different runs.
C28_ExclusionIsPerRun ==
    \A p \in Planners :
        /\ plan[p].used = {plan[p].pending[i].courier_id : i \in 1..Len(plan[p].pending)}
        /\ \A i, j \in 1..Len(plan[p].pending) :
                i # j => plan[p].pending[i].courier_id # plan[p].pending[j].courier_id
        /\ \A r1, r2 \in CreatedBy(p) : r1 # r2 => routes[r1].courier_id # routes[r2].courier_id

\* Both runs read the same planned unassigned stops, both are done, and one
\* courier owns a route created by each.
C28_Witness ==
    /\ plan["p1"].pc = "done"
    /\ plan["p2"].pc = "done"
    /\ plan["p1"].groups = plan["p2"].groups
    /\ plan["p1"].groups # <<>>
    /\ \E r1 \in CreatedBy("p1"), r2 \in CreatedBy("p2") :
            /\ r1 # r2
            /\ routes[r1].courier_id = routes[r2].courier_id

\* C31: a stop that becomes completed or failed by a terminal marking was
\* in_progress immediately before.
C31_TerminalOnlyFromInProgress ==
    [][\A o \in OrderIds :
        (Terminal(orders'[o].status) /\ orders'[o].status # orders[o].status) =>
            orders[o].status = "in_progress"]_vars

\* The orders in the groups of a request.
GroupedOrders(pl) == UNION {Range(pl.groups[i].orders) : i \in 1..Len(pl.groups)}

\* C32: a planning request groups exactly the orders that at its start have
\* the requested date, status planned and no route; no step of it changes
\* another order or a route that existed before.
C32_PlansExactlyCandidates ==
    [][/\ (plan["p1"].pc = "idle" /\ plan'["p1"].pc # "idle") =>
            GroupedOrders(plan'["p1"]) =
                IF couriers = {} THEN {}
                ELSE {o \in OrderIds : /\ orders[o].visit_date = plan["p1"].date
                                       /\ orders[o].status = "planned"
                                       /\ orders[o].route_id = None}
       /\ \A o \in OrderIds : o \notin GroupedOrders(plan["p1"]) => orders'[o] = orders[o]
       /\ \A r \in RouteIds : routes[r].exists => routes'[r] = routes[r]
      ]_vars

\* A request that created a route while an order of another date, a served
\* order or an order of route 1 was in the table.
C32_Witness ==
    /\ plan["p1"].pc = "done"
    /\ CreatedBy("p1") # {}
    /\ \E o \in OrderIds :
        /\ o \notin GroupedOrders(plan["p1"])
        /\ \/ orders[o].visit_date # plan["p1"].date
           \/ orders[o].status # "planned"
           \/ orders[o].route_id = 1

\* C33: when a planning request has returned, every assignment of the solver
\* with at least one stop has its own route: active, of the assignment's
\* courier, of the requested date, with the returned geometry; the orders
\* linked to it are the assignment's, each still planned.
C33_RoutePerAssignment ==
    LET pl == plan["p1"]
    IN pl.pc = "done" =>
        /\ CreatedBy("p1") = {pl.pending[i].id : i \in 1..Len(pl.pending)}
        /\ Cardinality(CreatedBy("p1")) = Len(pl.pending)
        /\ \A i \in 1..Len(pl.pending) :
            LET a == pl.pending[i]
            IN /\ a.order_ids # <<>>
               /\ routes[a.id].exists
               /\ routes[a.id].status = "active"
               /\ routes[a.id].courier_id = a.courier_id
               /\ routes[a.id].date = pl.date
               /\ routes[a.id].geometry = a.geometry
               /\ a.geometry = a.order_ids
               /\ LinkedOrders(orders, a.id) = Range(a.order_ids)
               /\ \A o \in Range(a.order_ids) : orders[o].status = "planned"

\* A request for the second date has returned with a route of that date.
C33_Witness ==
    /\ plan["p1"].pc = "done"
    /\ plan["p1"].date = 2
    /\ \E r \in CreatedBy("p1") : routes[r].date = 2 /\ LinkedOrders(orders, r) # {}

C35_OnePrimaryPerUser ==
    \A u \in Users :
        Cardinality({p \in DepotIds :
                        points[p].exists /\ points[p].user_id = u /\ points[p].is_primary}) <= 1

\* A user with several points, one of them primary, next to a primary point of
\* another user.
C35_Witness ==
    \E p, q, r \in DepotIds :
        /\ p # q
        /\ points[p].exists /\ points[q].exists /\ points[r].exists
        /\ points[p].user_id = points[q].user_id
        /\ points[p].is_primary
        /\ points[r].user_id # points[p].user_id
        /\ points[r].is_primary

\* C36: when a planning request has returned, every route it created has at
\* least one order linked to it; an assignment without stops gives no route.
C36_NoEmptyRoute ==
    plan["p1"].pc = "done" =>
        /\ \A r \in CreatedBy("p1") : LinkedOrders(orders, r) # {}
        /\ \A i \in 1..Len(plan["p1"].pending) : plan["p1"].pending[i].order_ids # <<>>

\* A request that created a route and left a courier it had offered without one.
C36_Witness ==
    /\ plan["p1"].pc = "done"
    /\ CreatedBy("p1") # {}
    /\ \E i \in 1..Len(plan["p1"].calls) :
            \E c \in plan["p1"].calls[i].vehicles :
                \A r \in CreatedBy("p1") : routes[r].courier_id # c

\* C37: in every reachable state every order linked to a completed route is
\* completed or failed.
C37_CompletedRouteHoldsServedStops ==
    \A r \in RouteIds :
        (routes[r].exists /\ routes[r].status = "completed") =>
            \A o \in LinkedOrders(orders, r) : Terminal(orders[o].status)

\* C38: in every reachable state the orders linked to one route have pairwise
\* distinct positions, and an order linked to no route has no position.
C38_PositionsDistinct ==
    /\ \A o1, o2 \in OrderIds :
        (o1 # o2 /\ orders[o1].route_id # None /\ orders[o1].route_id = orders[o2].route_id) =>
            orders[o1].route_position # orders[o2].route_position
    /\ \A o \in OrderIds : orders[o].route_id = None => orders[o].route_position = NoPos

\* The handlers whose check returns True in this step.
Notified == {h \in Handlers : bot[h].pc = "check" /\ bot'[h].pc = "idle" /\ bot'[h].ret}

\* C39: among concurrent marking handlers, a route's change from active to
\* completed is seen as True by exactly one of them, and a check returns True
\* only for the route it has just changed from active to completed.
C39_CompletionSeenOnce ==
    [][/\ \A r \in RouteIds :
            (routes[r].status = "active" /\ routes'[r].status = "completed") =>
                Cardinality({h \in Notified : bot[h].route_id = r}) = 1
       /\ \A h \in Notified :
            /\ bot[h].route_id # None
            /\ routes[bot[h].route_id].status = "active"
            /\ routes'[bot[h].route_id].status = "completed"
      ]_vars

\* Two handlers marked stops of the same route and both ended: the check of
\* the second completed the route, the check of the first found it completed.
C39_Witness ==
    /\ \A h \in Handlers : bot[h].pc = "idle"
    /\ bot["h1"].route_id = 1 /\ bot["h2"].route_id = 1
    /\ bot["h2"].ret
    /\ bot["h1"].branch = "not_active"
    /\ routes[1].status = "completed"

\* C40: a step of the dialogue changes a stop or a route only when a photo
\* arrives while a photo is awaited (the stop of the latest button becomes
\* completed) or a reason arrives while a reason is awaited (it becomes
\* failed); no other stop changes, and the dialogue is over afterwards.  A
\* cancel and a message that is not a photo while a photo is awaited change
\* nothing, and with no dialogue open nothing is marked.
C40_MarkOnlyInMatchingState ==
    [][LET o == fsm.order_id
       IN /\ (orders' # orders \/ routes' # routes) =>
                /\ fsm.state # "none"
                /\ o # None
                /\ \A x \in OrderIds \ {o} : orders'[x] = orders[x]
                /\ fsm'.state = "none"
                /\ fsm.state = "waiting_photo_proof" =>
                        fsm'.last = "photo" /\ orders'[o].status = "completed"
                /\ fsm.state = "waiting_failure_reason" =>
                        fsm'.last = "text" /\ orders'[o].status = "failed"
          /\ (fsm'.last = "photo" /\ fsm.state = "waiting_photo_proof") =>
                orders'[o].status = "completed" /\ orders'[o].proof_image
          /\ fsm'.last = "cancel" =>
                orders' = orders /\ routes' = routes /\ fsm'.state = "none"
          /\ (fsm'.last = "text" /\ fsm.state = "waiting_photo_proof") =>
                orders' = orders /\ routes' = routes /\ fsm'.state = fsm.state
      ]_vars

\* The dialogue is over after a reason marked a stop failed; another stop was
\* completed by a photo before.
C40_Witness ==
    /\ fsm.state = "none"
    /\ fsm.last = "text"
    /\ \E o \in OrderIds :
        /\ orders[o].status = "failed"
        /\ orders[o].failure_reason
        /\ ~orders[o].proof_image
    /\ \E o \in OrderIds : orders[o].status = "completed"
====
